---- MODULE Spec2Model ----
(***************************************************************************)
(* Flowgraph profile support of the JIT (src/coreclr/jit/fgprofile.cpp):   *)
(* block-weight reconstruction, the edge-weight solver and the             *)
(* instrumenter, as state machines over small control-flow graphs.         *)
(*                                                                         *)
(* Weights are integers.  Profile counts are 32-bit counters, and on       *)
(* integers below 2^24 the float arithmetic of weight_t is exact, so the   *)
(* comparisons of the code are the comparisons of the model.               *)
(***************************************************************************)
EXTENDS Integers, Sequences, FiniteSets, TLC

(***************************************************************************)
(* Bounds of the model.                                                    *)
(***************************************************************************)
MaxW == 3
MaxUnprofiled == 3
MaxInstrBlocks == 3
MaxSetW == 3
MaxSetSlop == 2
MaxPgoEntries == 2
MaxHashByte == 23
CascadeLength == 8

(***************************************************************************)
(* Program constants.                                                      *)
(***************************************************************************)
BB_ZERO_WEIGHT == 0
BB_UNITY_WEIGHT == 1
BB_MAX_WEIGHT == 1000000
SlopDivisor == 50
MaxPropagateIterations == 10
MaxSolverIterations == 8

Weights == 0..MaxW

Max2(a, b) == IF a >= b THEN a ELSE b

(***************************************************************************)
(* The control-flow graphs.  Blocks are numbered 1..n in bbNext order and  *)
(* block 1 is fgFirstBB.  kind is bbJumpKind, dest is bbJumpDest (0 when   *)
(* the kind has none), targets is the switch table, internal is            *)
(* BBF_INTERNAL, scratch says that block 1 is the scratch first block.     *)
(***************************************************************************)
Chain3 ==
  [kind |-> <<"NONE", "NONE", "RETURN">>, dest |-> <<0, 0, 0>>,
   targets |-> <<{}, {}, {}>>, internal |-> <<FALSE, FALSE, FALSE>>, scratch |-> FALSE]

Diamond ==
  [kind |-> <<"COND", "ALWAYS", "NONE", "RETURN">>, dest |-> <<3, 4, 0, 0>>,
   targets |-> <<{}, {}, {}, {}>>, internal |-> <<FALSE, FALSE, FALSE, FALSE>>, scratch |-> FALSE]

LoopToEntry ==
  [kind |-> <<"NONE", "COND", "RETURN">>, dest |-> <<0, 1, 0>>,
   targets |-> <<{}, {}, {}>>, internal |-> <<FALSE, FALSE, FALSE>>, scratch |-> FALSE]

Switch3 ==
  [kind |-> <<"SWITCH", "RETURN", "RETURN", "THROW">>, dest |-> <<0, 0, 0, 0>>,
   targets |-> <<{2, 3, 4}, {}, {}, {}>>, internal |-> <<FALSE, FALSE, FALSE, FALSE>>, scratch |-> FALSE]

CondLadder ==
  [kind |-> <<"COND", "COND", "NONE", "RETURN">>, dest |-> <<4, 4, 0, 0>>,
   targets |-> <<{}, {}, {}, {}>>, internal |-> <<FALSE, FALSE, FALSE, FALSE>>, scratch |-> FALSE]

CondSame ==
  [kind |-> <<"NONE", "COND", "RETURN">>, dest |-> <<0, 3, 0>>,
   targets |-> <<{}, {}, {}>>, internal |-> <<FALSE, FALSE, FALSE>>, scratch |-> FALSE]

ScratchLoop ==
  [kind |-> <<"NONE", "COND", "RETURN">>, dest |-> <<0, 2, 0>>,
   targets |-> <<{}, {}, {}>>, internal |-> <<TRUE, FALSE, FALSE>>, scratch |-> TRUE]

ScratchChain ==
  [kind |-> <<"NONE", "NONE", "ALWAYS", "RETURN">>, dest |-> <<0, 0, 4, 0>>,
   targets |-> <<{}, {}, {}, {}>>, internal |-> <<TRUE, FALSE, FALSE, FALSE>>, scratch |-> TRUE]

\* A loop that became unreachable: B2 -> B3 -> B4 -> B2.
Ring ==
  [kind |-> <<"RETURN", "ALWAYS", "ALWAYS", "ALWAYS">>, dest |-> <<0, 3, 4, 2>>,
   targets |-> <<{}, {}, {}, {}>>, internal |-> <<FALSE, FALSE, FALSE, FALSE>>, scratch |-> FALSE]

\* A cascade of CascadeLength BBJ_COND blocks C1..Cn under a switch B1: Ck
\* falls into the exit Jk and jumps to the exit J(k-1), and B1 jumps to J0
\* and to every Ck.  Blocks: B1, J0, C1, J1, ..., Cn, Jn.  Only the weight
\* of Jn settles a pred record on its own; each pass settles one Ck more.
CascadeBlocks == 2 * CascadeLength + 2
IsCascadeCond(b) == b > 2 /\ b % 2 = 1

Cascade ==
  [kind |-> [b \in 1..CascadeBlocks |->
               IF b = 1 THEN "SWITCH" ELSE IF IsCascadeCond(b) THEN "COND" ELSE "RETURN"],
   dest |-> [b \in 1..CascadeBlocks |-> IF IsCascadeCond(b) THEN b - 1 ELSE 0],
   targets |-> [b \in 1..CascadeBlocks |->
                  IF b = 1 THEN {2} \cup {c \in 1..CascadeBlocks : IsCascadeCond(c)} ELSE {}],
   internal |-> [b \in 1..CascadeBlocks |-> FALSE],
   scratch |-> FALSE]

\* Its weights: every pred record carries 1, but the 2 of each B1 -> Ck.
CascadeWeights ==
  [b \in 1..CascadeBlocks |->
     IF b = 1 THEN 2 * CascadeLength + 1 ELSE IF b = CascadeBlocks THEN 1 ELSE 2]

Shapes == <<Chain3, Diamond, LoopToEntry, Switch3, CondLadder, CondSame, ScratchLoop,
            ScratchChain, Ring, Cascade>>

NumBlocks(c) == Len(c.kind)
Blocks(c) == 1..NumBlocks(c)

\* The successors of a block, by its jump kind.
SuccSet(c, b) ==
  CASE c.kind[b] = "NONE" -> {b + 1}
    [] c.kind[b] \in {"ALWAYS", "CALLFINALLY", "EHCATCHRET"} -> {c.dest[b]}
    [] c.kind[b] = "COND" -> {b + 1, c.dest[b]}
    [] c.kind[b] \in {"SWITCH", "EHFINALLYRET", "EHFILTERRET"} -> c.targets[b]
    [] OTHER -> {}

\* flDupCount of the pred record src -> dst: a COND whose two targets are the
\* same block refers to it twice.
DupCount(c, s, d) ==
  IF c.kind[s] = "COND" /\ c.dest[s] = s + 1 /\ d = s + 1 THEN 2 ELSE 1

RECURSIVE SeqOfSet(_)
SeqOfSet(S) ==
  IF S = {} THEN <<>>
  ELSE LET m == CHOOSE x \in S : \A y \in S : x <= y
       IN <<m>> \o SeqOfSet(S \ {m})

\* bbPreds of a block: one record per predecessor block, in block order.
Preds(c, d) == SeqOfSet({s \in Blocks(c) : d \in SuccSet(c, s)})

RECURSIVE EdgesFrom(_, _)
EdgesFrom(c, d) ==
  IF d > NumBlocks(c) THEN <<>>
  ELSE [i \in 1..Len(Preds(c, d)) |-> <<Preds(c, d)[i], d>>] \o EdgesFrom(c, d + 1)

\* Every pred record of the graph, in the order in which a walk over the
\* blocks and over each block's bbPreds meets them.
EdgeList(c) == EdgesFrom(c, 1)

RECURSIVE SumSeq(_)
SumSeq(s) == IF s = <<>> THEN 0 ELSE Head(s) + SumSeq(Tail(s))

\* bbRefs: the pred records with their duplicate counts, and one more
\* reference for the method entry.
countOfInEdges(c, b) ==
  SumSeq([i \in 1..Len(Preds(c, b)) |-> DupCount(c, Preds(c, b)[i], b)])
    + (IF b = 1 THEN 1 ELSE 0)

\* The index in EdgeList of the pred record src -> dst (0 when there is none).
fgGetPredForBlock(el, d, s) ==
  IF \E i \in 1..Len(el) : el[i] = <<s, d>>
  THEN CHOOSE i \in 1..Len(el) : el[i] = <<s, d>>
  ELSE 0

(***************************************************************************)
(* The state.                                                              *)
(***************************************************************************)
VARIABLES
  cfg,            \* the flow graph (fixed during a compilation), with its pred records
  isOptimizing,   \* opts.OptimizationEnabled()
  usingProfileWeights, \* fgIsUsingProfileWeights()
  bbWeight,       \* bbWeight of each block
  bbProf,         \* BBF_PROF_WEIGHT of each block (hasProfileWeight)
  bbRare,         \* BBF_RUN_RARELY of each block
  edges,          \* [min, max] of each pred record: flEdgeWeightMin, flEdgeWeightMax
  pc,             \* where the compilation stands
  cursor,         \* the pred record or block the current loop stands at
  iterations,     \* the iterations local of the running loop
  changed,        \* fgComputeMissingBlockWeights: changed
  returnWeight,   \* the result of fgComputeMissingBlockWeights
  fgCalledCount,
  numEdges, goodEdgeCountCurrent, goodEdgeCountPrevious,
  inconsistentProfileData, hasIncompleteEdgeWeights, usedSlop,
  fgEdgeCount, fgHaveValidEdgeWeights, fgEdgeWeightsComputed,
  fgSlopUsedInEdgeWeights, fgRangeUsedInEdgeWeights,
  assertFailed,   \* the assert / noway_assert conditions that did not hold so far
  written,        \* history: the blocks whose weight came from the profile data,
                  \* from fgComputeMissingBlockWeights, from fgComputeCalledCount
  firstRun,       \* history: whether fgComputeEdgeWeights is called a second time, and
                  \* the pred records as its first run left them
  method,         \* fgInstrumentMethod: the blocks to instrument, the options, the host's answer
  schema,         \* the instrumentation schema
  countOfBlocks, countOfCalls, instrument, currentSchemaIndex,
  addrOfFirstExecutionCount,
  profileMemory,  \* the buffer the host allocated (0: none)
  counters,       \* per block: the addresses of the counter statements at its head
  calls,          \* per block, per call: its this-argument probe, temp and stub address
  lvaCount,       \* the temps grabbed
  entryHook,      \* the method-entry callback statement: the address it tests (0: no
                  \* statement) and its argument
  allocCalls,     \* the calls of allocPgoInstrumentationBySchema
  flEdge,         \* a pred record on which a checked setter is called on its own
  setterCall,     \* that call: the setter, its arguments, what it found and returned
  wbUsedSlop,     \* the flag the call's wbUsedSlop points to
  fgPgoSchema,    \* the schema of the profile data: present or nullptr, its entries
  fgPgoData,      \* the counter buffer, by byte offset
  compIsForImportOnly,
  hashSeed,       \* fgStressBBProf(), an unsigned
  compMethodHash, \* info.compMethodHash(), an unsigned
  ilOffs,         \* the offset fgGetProfileWeightForBasicBlock is called with
  weightWB,       \* the weight its weightWB points to
  found,          \* what it returned
  ehBoundaryIn,   \* the blocks with hasEHBoundaryIn()
  ehBoundaryOut,  \* the blocks with hasEHBoundaryOut()
  jitProfileChecks, \* JitConfig.JitProfileChecks()
  problemBlocks,  \* problemBlocks of fgDebugCheckProfileData when it returns
  iciBlock,       \* impInlineInfo->iciBlock: the profile flag and weight of the call site block
  profileScaleState,  \* impInlineInfo->profileScaleState
  profileScaleFactor, \* impInlineInfo->profileScaleFactor, the quotient num / den
  scaleCalls      \* the calls of fgComputeProfileScale made for the inlinee

cfgVars == <<cfg, isOptimizing, usingProfileWeights>>
blockVars == <<bbWeight, bbProf, bbRare>>
ctlVars == <<pc, cursor, iterations>>
propVars == <<changed, returnWeight>>
solverLocals == <<numEdges, goodEdgeCountCurrent, goodEdgeCountPrevious,
                  inconsistentProfileData, hasIncompleteEdgeWeights, usedSlop>>
solverOut == <<fgEdgeCount, fgHaveValidEdgeWeights, fgEdgeWeightsComputed,
               fgSlopUsedInEdgeWeights, fgRangeUsedInEdgeWeights>>
insVars == <<method, schema, countOfBlocks, countOfCalls, instrument, currentSchemaIndex,
             addrOfFirstExecutionCount, profileMemory, counters, calls, lvaCount,
             entryHook, allocCalls>>
optVars == <<cfgVars, blockVars, edges, iterations, propVars, fgCalledCount,
             solverLocals, solverOut, written, firstRun>>
setterVars == <<flEdge, setterCall, wbUsedSlop>>
pgoVars == <<fgPgoSchema, fgPgoData, compIsForImportOnly, hashSeed, compMethodHash,
             ilOffs, weightWB, found>>
chkVars == <<ehBoundaryIn, ehBoundaryOut, jitProfileChecks, problemBlocks>>
scaleVars == <<iciBlock, profileScaleState, profileScaleFactor, scaleCalls>>
extVars == <<chkVars, scaleVars>>
vars == <<optVars, pc, cursor, assertFailed, insVars, setterVars, pgoVars, extVars>>

(***************************************************************************)
(* flowList: the checked setters.  Each returns the new range e, the       *)
(* result ok, used (whether *wbUsedSlop was set) and the asserts of the    *)
(* routine that did not hold.                                              *)
(***************************************************************************)
InRange(e, w) == w <= e.max /\ w >= e.min

\* assert((flEdgeWeightMax == 0) || ((newWeight <= Max) && (newWeight >= Min)))
SetterPost(e, w) == e.max = 0 \/ InRange(e, w)

setEdgeWeightMinChecked_KeepsMin(e, newWeight, slop) ==
  [e |-> e, ok |-> TRUE, used |-> FALSE, af |-> {}]

setEdgeWeightMinChecked_SilentSlop(e, newWeight, slop) ==
  IF InRange(e, newWeight)
  THEN [e |-> [e EXCEPT !.min = newWeight], ok |-> TRUE, used |-> FALSE, af |-> {}]
  ELSE IF slop > 0
  THEN IF e.max < newWeight
       THEN IF newWeight <= e.max + slop
            THEN [e |-> IF e.max # 0 THEN [min |-> e.max, max |-> newWeight] ELSE e,
                  ok |-> TRUE, used |-> TRUE, af |-> {}]
            ELSE [e |-> e, ok |-> FALSE, used |-> FALSE, af |-> {}]
       ELSE IF newWeight + slop >= e.min
            THEN [e |-> [e EXCEPT !.min = newWeight], ok |-> TRUE, used |-> FALSE, af |-> {}]
            ELSE [e |-> e, ok |-> FALSE, used |-> FALSE, af |-> {}]
  ELSE [e |-> e, ok |-> FALSE, used |-> FALSE, af |-> {}]

setEdgeWeightMinChecked(e, newWeight, slop) ==
  IF InRange(e, newWeight)
  THEN [e |-> [e EXCEPT !.min = newWeight], ok |-> TRUE, used |-> FALSE, af |-> {}]
  ELSE IF slop > 0
  THEN IF e.max < newWeight
       THEN IF newWeight <= e.max + slop
            THEN LET e2 == IF e.max # 0 THEN [min |-> e.max, max |-> newWeight] ELSE e
                 IN [e |-> e2, ok |-> TRUE, used |-> TRUE,
                     af |-> IF SetterPost(e2, newWeight) THEN {} ELSE {"setMin.post"}]
            ELSE [e |-> e, ok |-> FALSE, used |-> FALSE, af |-> {}]
       ELSE LET a1 == IF e.min > newWeight THEN {} ELSE {"setMin.minAboveNew"}
            IN IF newWeight + slop >= e.min
               THEN LET e2 == [e EXCEPT !.min = newWeight]
                    IN [e |-> e2, ok |-> TRUE, used |-> TRUE,
                        af |-> a1 \cup (IF e.max # 0 THEN {} ELSE {"setMin.maxNonZero"})
                                  \cup (IF SetterPost(e2, newWeight) THEN {} ELSE {"setMin.post"})]
               ELSE [e |-> e, ok |-> FALSE, used |-> FALSE, af |-> a1]
  ELSE [e |-> e, ok |-> FALSE, used |-> FALSE, af |-> {}]

setEdgeWeightMaxChecked_SlidesUp(e, newWeight, slop) ==
  IF InRange(e, newWeight)
  THEN [e |-> [e EXCEPT !.max = newWeight], ok |-> TRUE, used |-> FALSE, af |-> {}]
  ELSE IF slop > 0
  THEN IF e.max < newWeight
       THEN IF newWeight <= e.max + slop
            THEN [e |-> IF e.max # 0 THEN [min |-> e.max, max |-> newWeight] ELSE e,
                  ok |-> TRUE, used |-> TRUE, af |-> {}]
            ELSE [e |-> e, ok |-> FALSE, used |-> FALSE, af |-> {}]
       ELSE IF newWeight + slop >= e.min
            THEN [e |-> [min |-> newWeight, max |-> e.min], ok |-> TRUE, used |-> TRUE,
                  af |-> {}]
            ELSE [e |-> e, ok |-> FALSE, used |-> FALSE, af |-> {}]
  ELSE [e |-> e, ok |-> FALSE, used |-> FALSE, af |-> {}]

setEdgeWeightMaxChecked_LowersMaxOnly(e, newWeight, slop) ==
  IF InRange(e, newWeight)
  THEN [e |-> [e EXCEPT !.max = newWeight], ok |-> TRUE, used |-> FALSE, af |-> {}]
  ELSE IF slop > 0
  THEN IF e.max < newWeight
       THEN IF newWeight <= e.max + slop
            THEN [e |-> IF e.max # 0 THEN [e EXCEPT !.max = newWeight] ELSE e,
                  ok |-> TRUE, used |-> TRUE, af |-> {}]
            ELSE [e |-> e, ok |-> FALSE, used |-> FALSE, af |-> {}]
       ELSE IF newWeight + slop >= e.min
            THEN [e |-> [e EXCEPT !.max = newWeight], ok |-> TRUE, used |-> TRUE, af |-> {}]
            ELSE [e |-> e, ok |-> FALSE, used |-> FALSE, af |-> {}]
  ELSE [e |-> e, ok |-> FALSE, used |-> FALSE, af |-> {}]

setEdgeWeightMaxChecked(e, newWeight, slop) ==
  IF InRange(e, newWeight)
  THEN [e |-> [e EXCEPT !.max = newWeight], ok |-> TRUE, used |-> FALSE, af |-> {}]
  ELSE IF slop > 0
  THEN IF e.max < newWeight
       THEN IF newWeight <= e.max + slop
            THEN LET e2 == IF e.max # 0 THEN [e EXCEPT !.max = newWeight] ELSE e
                 IN [e |-> e2, ok |-> TRUE, used |-> TRUE,
                     af |-> IF SetterPost(e2, newWeight) THEN {} ELSE {"setMax.post"}]
            ELSE [e |-> e, ok |-> FALSE, used |-> FALSE, af |-> {}]
       ELSE LET a1 == IF e.min > newWeight THEN {} ELSE {"setMax.minAboveNew"}
            IN IF newWeight + slop >= e.min
               THEN LET e2 == [min |-> newWeight, max |-> e.min]
                    IN [e |-> e2, ok |-> TRUE, used |-> TRUE,
                        af |-> a1 \cup (IF e.max # 0 THEN {} ELSE {"setMax.maxNonZero"})
                                  \cup (IF SetterPost(e2, newWeight) THEN {} ELSE {"setMax.post"})]
               ELSE [e |-> e, ok |-> FALSE, used |-> FALSE, af |-> a1]
  ELSE [e |-> e, ok |-> FALSE, used |-> FALSE, af |-> {}]

\* setEdgeWeights: assert(theMinWeight <= theMaxWeight), then both fields.
setEdgeWeights(theMinWeight, theMaxWeight) == [min |-> theMinWeight, max |-> theMaxWeight]

\* A setter call inside fgComputeEdgeWeights: r is the running record
\* [e, ok, used, af] of the pred record at hand; ok is and-ed (assignOK &=),
\* used is or-ed (the setters only ever set usedSlop), af accumulates.
Call(r, res) ==
  [e |-> res.e, ok |-> r.ok /\ res.ok, used |-> r.used \/ res.used, af |-> r.af \cup res.af]

Start(e) == [e |-> e, ok |-> TRUE, used |-> FALSE, af |-> {}]

\* BasicBlock::GetSlopFraction(bSrc, bDst): a fraction of the larger weight.
GetSlopFraction(ws, wd) == Max2(ws, wd) \div SlopDivisor

(***************************************************************************)
(* fgComputeMissingBlockWeights.                                           *)
(***************************************************************************)
\* The one block that control leaves a block for (0 for nullptr).
OnlyNext(c, b) ==
  IF c.kind[b] = "NONE" THEN (IF b < NumBlocks(c) THEN b + 1 ELSE 0)
  ELSE IF c.kind[b] = "ALWAYS" THEN c.dest[b]
  ELSE 0

\* The weight of bDst's only predecessor, when that block flows only into bDst
\* and has a profile weight; BB_MAX_WEIGHT when there is no such weight.
WeightFromPred(c, w, prof, bDst) ==
  IF c.preds[bDst] # <<>> /\ c.refs[bDst] = 1
  THEN LET bSrc == c.preds[bDst][1]
       IN IF OnlyNext(c, bSrc) = bDst /\ prof[bSrc] THEN w[bSrc] ELSE BB_MAX_WEIGHT
  ELSE BB_MAX_WEIGHT

WeightFromSucc_PredFirst(c, w, prof, bDst, soFar) ==
  LET bOnlyNext == OnlyNext(c, bDst)
  IN IF soFar = BB_MAX_WEIGHT /\ bOnlyNext # 0 /\ c.preds[bOnlyNext] # <<>>
          /\ c.refs[bOnlyNext] = 1
     THEN w[bOnlyNext]
     ELSE soFar

\* The weight of the only block bDst flows into, when bDst is the only block
\* flowing into it; otherwise the weight found so far.
WeightFromSucc(c, w, prof, bDst, soFar) ==
  LET bOnlyNext == OnlyNext(c, bDst)
  IN IF bOnlyNext # 0 /\ c.preds[bOnlyNext] # <<>> /\ c.refs[bOnlyNext] = 1
     THEN w[bOnlyNext]
     ELSE soFar

ScanBlock_NoReturnSum(c, prof, st, bDst) ==
  LET newWeight ==
        WeightFromSucc(c, st.w, prof, bDst, WeightFromPred(c, st.w, prof, bDst))
      assign == ~prof[bDst] /\ c.preds[bDst] # <<>>
                  /\ newWeight # BB_MAX_WEIGHT /\ st.w[bDst] # newWeight
  IN IF assign
     THEN [st EXCEPT !.changed = TRUE,
                     !.w[bDst] = newWeight,
                     !.rare[bDst] = (newWeight = 0),
                     !.wr = @ \cup {bDst}]
     ELSE st

\* The body of the loop over the blocks, for the block bDst; st carries the
\* weights and flags written so far, changed, returnWeight and the blocks
\* written.
ScanBlock(c, prof, st, bDst) ==
  LET newWeight ==
        WeightFromSucc(c, st.w, prof, bDst, WeightFromPred(c, st.w, prof, bDst))
      assign == ~prof[bDst] /\ c.preds[bDst] # <<>>
                  /\ newWeight # BB_MAX_WEIGHT /\ st.w[bDst] # newWeight
      st1 == IF assign
             THEN [st EXCEPT !.changed = TRUE,
                             !.w[bDst] = newWeight,
                             !.rare[bDst] = (newWeight = 0),
                             !.wr = @ \cup {bDst}]
             ELSE st
  IN IF prof[bDst] /\ c.kind[bDst] \in {"RETURN", "THROW"}
     THEN [st1 EXCEPT !.ret = @ + st1.w[bDst]]
     ELSE st1

RECURSIVE ScanBlocks(_, _, _, _)
ScanBlocks(c, prof, st, bDst) ==
  IF bDst > NumBlocks(c) THEN st
  ELSE ScanBlocks(c, prof, ScanBlock(c, prof, st, bDst), bDst + 1)

ContinueScan_Unbounded(ch, it) == ch

\* while (changed && iterations < 10)
ContinueScan(ch, it) == ch /\ it < MaxPropagateIterations

PropagateScan_FlagsWritten ==
  /\ pc = "propagate"
  /\ LET st == ScanBlocks(cfg, bbProf,
                          [w |-> bbWeight, rare |-> bbRare, changed |-> FALSE,
                           ret |-> 0, wr |-> {}], 1)
     IN /\ bbWeight' = st.w
        /\ bbRare' = st.rare
        /\ bbProf' = [b \in Blocks(cfg) |-> bbProf[b] \/ b \in st.wr]
        /\ changed' = st.changed
        /\ returnWeight' = st.ret
        /\ iterations' = iterations + 1
        /\ written' = [written EXCEPT !.propagated = @ \cup st.wr]
        /\ pc' = IF ContinueScan(st.changed, iterations + 1)
                 THEN "propagate"
                 ELSE IF usingProfileWeights THEN "calledCount" ELSE "edgeWeights"
  /\ UNCHANGED <<extVars, firstRun, pgoVars, setterVars, insVars, cfgVars, edges, cursor, fgCalledCount, solverLocals,
                 solverOut, assertFailed>>

\* One iteration of the do-while loop: one scan of the block list.
PropagateScan ==
  /\ pc = "propagate"
  /\ LET st == ScanBlocks(cfg, bbProf,
                          [w |-> bbWeight, rare |-> bbRare, changed |-> FALSE,
                           ret |-> 0, wr |-> {}], 1)
     IN /\ bbWeight' = st.w
        /\ bbRare' = st.rare
        /\ changed' = st.changed
        /\ returnWeight' = st.ret
        /\ iterations' = iterations + 1
        /\ written' = [written EXCEPT !.propagated = @ \cup st.wr]
        /\ pc' = IF ContinueScan(st.changed, iterations + 1)
                 THEN "propagate"
                 ELSE IF usingProfileWeights THEN "calledCount" ELSE "edgeWeights"
  /\ UNCHANGED <<extVars, firstRun, pgoVars, setterVars, insVars, cfgVars, bbProf, edges, cursor, fgCalledCount, solverLocals,
                 solverOut, assertFailed>>

(***************************************************************************)
(* fgComputeCalledCount.                                                   *)
(***************************************************************************)
\* The first block that is not BBF_INTERNAL.
FirstILBlock(c) == CHOOSE b \in Blocks(c) :
                     ~c.internal[b] /\ \A a \in 1..(b - 1) : c.internal[a]

CalledCount_FirstBlockOnly(c, w, rw) == w[FirstILBlock(c)]

\* fgCalledCount, from the first IL block and the weight of the exits.
CalledCount(c, w, rw) ==
  IF c.refs[FirstILBlock(c)] = 1 \/ rw = 0 THEN w[FirstILBlock(c)] ELSE rw

\* BasicBlock::setBBProfileWeight: the weight, with BBF_PROF_WEIGHT.
setBBProfileWeight(w, prof, b, weight) ==
  [w |-> [w EXCEPT ![b] = weight], prof |-> [prof EXCEPT ![b] = TRUE]]

fgComputeCalledCount_KeepsRunRarely ==
  /\ pc = "calledCount"
  /\ LET cc == CalledCount(cfg, bbWeight, returnWeight)
         set == setBBProfileWeight(bbWeight, bbProf, 1, cc)
     IN /\ fgCalledCount' = cc
        /\ UNCHANGED assertFailed
        /\ IF cfg.scratch
           THEN /\ bbWeight' = set.w
                /\ bbProf' = set.prof
                /\ UNCHANGED bbRare
                /\ written' = [written EXCEPT !.scratch = @ \cup {1}]
           ELSE UNCHANGED <<blockVars, written>>
  /\ pc' = "edgeWeights"
  /\ UNCHANGED <<extVars, firstRun, pgoVars, setterVars, insVars, cfgVars, edges, cursor, iterations, propVars, solverLocals, solverOut>>

fgComputeCalledCount ==
  /\ pc = "calledCount"
  /\ LET cc == CalledCount(cfg, bbWeight, returnWeight)
         set == setBBProfileWeight(bbWeight, bbProf, 1, cc)
     IN /\ fgCalledCount' = cc
        /\ assertFailed' = assertFailed \cup
             (IF bbProf[FirstILBlock(cfg)]
                   \/ ~(cfg.internal[1] \/ cfg.refs[FirstILBlock(cfg)] = 1 \/ returnWeight = 0)
              THEN {} ELSE {"calledCount.firstILProfiled"})
        /\ IF cfg.scratch
           THEN /\ bbWeight' = set.w
                /\ bbProf' = set.prof
                /\ bbRare' = [bbRare EXCEPT ![1] = (set.w[1] = 0)]
                /\ written' = [written EXCEPT !.scratch = @ \cup {1}]
           ELSE UNCHANGED <<blockVars, written>>
  /\ pc' = "edgeWeights"
  /\ UNCHANGED <<extVars, firstRun, pgoVars, setterVars, insVars, cfgVars, edges, cursor, iterations, propVars, solverLocals, solverOut>>

(***************************************************************************)
(* fgComputeEdgeWeights.                                                   *)
(***************************************************************************)
Src(c, i) == c.edges[i][1]
Dst(c, i) == c.edges[i][2]

\* bDstWeight: the weight that flows into a block from inside the method.
DstWeight(w, cc, bDst) == IF bDst = 1 THEN w[bDst] - cc ELSE w[bDst]

Slop_Unlimited(w, bSrc, bDst) == BB_MAX_WEIGHT

Slop(w, bSrc, bDst) == GetSlopFraction(w[bSrc], w[bDst]) + 1

Unconditional == {"ALWAYS", "EHCATCHRET", "NONE", "CALLFINALLY"}
MultiWay_WithReturn == {"COND", "SWITCH", "EHFINALLYRET", "EHFILTERRET", "RETURN"}

MultiWay == {"COND", "SWITCH", "EHFINALLYRET", "EHFILTERRET"}

fgComputeEdgeWeights_SkipOnlyUnoptimized ==
  /\ pc = "edgeWeights"
  /\ IF ~isOptimizing
     THEN /\ pc' = "done"
          /\ UNCHANGED <<cursor, iterations, solverLocals>>
     ELSE /\ pc' = "init"
          /\ cursor' = 1
          /\ iterations' = 0
          /\ numEdges' = 0
          /\ goodEdgeCountCurrent' = 0
          /\ goodEdgeCountPrevious' = 0
          /\ inconsistentProfileData' = FALSE
          /\ hasIncompleteEdgeWeights' = FALSE
          /\ usedSlop' = FALSE
  /\ UNCHANGED <<extVars, firstRun, pgoVars, setterVars, insVars, cfgVars, blockVars, edges, propVars, fgCalledCount, solverOut,
                 assertFailed, written>>

fgComputeEdgeWeights ==
  /\ pc = "edgeWeights"
  /\ IF ~isOptimizing \/ ~usingProfileWeights
     THEN /\ pc' = "done"
          /\ UNCHANGED <<cursor, iterations, solverLocals>>
     ELSE /\ pc' = "init"
          /\ cursor' = 1
          /\ iterations' = 0
          /\ numEdges' = 0
          /\ goodEdgeCountCurrent' = 0
          /\ goodEdgeCountPrevious' = 0
          /\ inconsistentProfileData' = FALSE
          /\ hasIncompleteEdgeWeights' = FALSE
          /\ usedSlop' = FALSE
  /\ UNCHANGED <<extVars, firstRun, pgoVars, setterVars, insVars, cfgVars, blockVars, edges, propVars, fgCalledCount, solverOut,
                 assertFailed, written>>

\* The body of the first loop for one pred record: the initial range.
InitRange(c, w, prof, cc, e, i) ==
  LET bSrc == Src(c, i)
      bDst == Dst(c, i)
      slop == Slop(w, bSrc, bDst)
      r0 == Start(IF ~prof[bSrc] \/ ~prof[bDst]
                  THEN setEdgeWeights(BB_ZERO_WEIGHT, BB_MAX_WEIGHT) ELSE e)
      r1 == IF c.kind[bSrc] \in Unconditional
            THEN LET a == Call(r0, setEdgeWeightMinChecked(r0.e, w[bSrc], slop))
                 IN Call(a, setEdgeWeightMaxChecked(a.e, w[bSrc], slop))
            ELSE IF c.kind[bSrc] \in MultiWay
            THEN IF r0.e.max > w[bSrc]
                 THEN Call(r0, setEdgeWeightMaxChecked(r0.e, w[bSrc], slop))
                 ELSE r0
            ELSE [r0 EXCEPT !.af = @ \cup {"init.unexpectedJumpKind"}]
  IN IF "init.unexpectedJumpKind" \in r1.af THEN r1
     ELSE IF r1.e.max > DstWeight(w, cc, bDst)
     THEN Call(r1, setEdgeWeightMaxChecked(r1.e, DstWeight(w, cc, bDst), slop))
     ELSE r1

InitEdge ==
  /\ pc = "init"
  /\ cursor <= Len(cfg.edges)
  /\ LET r == InitRange(cfg, bbWeight, bbProf, fgCalledCount, edges[cursor], cursor)
     IN /\ edges' = [edges EXCEPT ![cursor] = r.e]
        /\ numEdges' = numEdges + 1
        /\ usedSlop' = (usedSlop \/ r.used)
        /\ assertFailed' = assertFailed \cup r.af
        /\ IF "init.unexpectedJumpKind" \in r.af
           THEN /\ pc' = "fatal"
                /\ UNCHANGED <<cursor, inconsistentProfileData>>
           ELSE IF ~r.ok
           THEN /\ inconsistentProfileData' = TRUE
                /\ pc' = "exit"
                /\ UNCHANGED cursor
           ELSE /\ cursor' = cursor + 1
                /\ UNCHANGED <<pc, inconsistentProfileData>>
  /\ UNCHANGED <<extVars, firstRun, pgoVars, setterVars, insVars, cfgVars, blockVars, iterations, propVars, fgCalledCount,
                 goodEdgeCountCurrent, goodEdgeCountPrevious, hasIncompleteEdgeWeights,
                 solverOut, written>>

\* The first pred record at or after i whose source is a BBJ_COND block.
NextCond(c, i) ==
  IF \E j \in i..Len(c.edges) : c.kind[Src(c, j)] = "COND"
  THEN CHOOSE j \in i..Len(c.edges) :
         c.kind[Src(c, j)] = "COND" /\ \A k \in i..(j - 1) : c.kind[Src(c, k)] # "COND"
  ELSE Len(c.edges) + 1

\* The end of the first loop and the head of each pass of the do-while loop.
BeginPass ==
  /\ \/ pc = "init" /\ cursor > Len(cfg.edges) /\ iterations' = 1
                    /\ fgEdgeCount' = numEdges
     \/ pc = "nextPass" /\ iterations' = iterations + 1 /\ UNCHANGED fgEdgeCount
  /\ goodEdgeCountPrevious' = goodEdgeCountCurrent
  /\ goodEdgeCountCurrent' = 0
  /\ hasIncompleteEdgeWeights' = FALSE
  /\ pc' = "reconcile"
  /\ cursor' = NextCond(cfg, 1)
  /\ UNCHANGED <<extVars, firstRun, pgoVars, setterVars, insVars, cfgVars, blockVars, edges, propVars, fgCalledCount, numEdges,
                 inconsistentProfileData, usedSlop, fgHaveValidEdgeWeights,
                 fgEdgeWeightsComputed, fgSlopUsedInEdgeWeights,
                 fgRangeUsedInEdgeWeights, assertFailed, written>>

\* A setter call on the pred record i of the array es.es; st is the running
\* record [es, ok, used, af] of one loop body.
Apply(st, i, res) ==
  [st EXCEPT !.es[i] = res.e, !.ok = @ /\ res.ok, !.used = @ \/ res.used,
             !.af = @ \cup res.af]

\* The other pred record that leaves the BBJ_COND source of the pred record i.
OtherEdge(c, i) ==
  IF Src(c, i) + 1 = Dst(c, i)
  THEN fgGetPredForBlock(c.edges, c.dest[Src(c, i)], Src(c, i))
  ELSE fgGetPredForBlock(c.edges, Src(c, i) + 1, Src(c, i))

Balance_RaisesMinOnly(st, W, a, b, slop) ==
  LET diff == W - (st.es[a].min + st.es[b].max)
  IN IF diff > 0
     THEN Apply(st, a, setEdgeWeightMinChecked(st.es[a], st.es[a].min + diff, slop))
     ELSE st

\* One half of the reconciliation: raise the min of the pred record a or lower
\* the max of the pred record b so that they add up to the weight W.
Balance(st, W, a, b, slop) ==
  LET diff == W - (st.es[a].min + st.es[b].max)
  IN IF diff > 0
     THEN Apply(st, a, setEdgeWeightMinChecked(st.es[a], st.es[a].min + diff, slop))
     ELSE IF diff < 0
     THEN Apply(st, b, setEdgeWeightMaxChecked(st.es[b], st.es[b].max + diff, slop))
     ELSE st

\* Whether a min and a max add up to W to within slop.
WithinSlop(es, W, a, b, slop) ==
  LET diff == W - (es[a].min + es[b].max)
  IN (0 - slop) <= diff /\ diff <= slop

\* The body of the first loop of a pass, for a pred record i that leaves a
\* BBJ_COND block.
Reconcile(c, w, es, i) ==
  LET bSrc == Src(c, i)
      o == OtherEdge(c, i)
      slop == Slop(w, bSrc, Dst(c, i))
      st0 == [es |-> es, ok |-> TRUE, used |-> FALSE,
              af |-> (IF es[i].min <= es[i].max THEN {} ELSE {"reconcile.edgeMinMax"})
                       \cup (IF es[o].min <= es[o].max THEN {} ELSE {"reconcile.otherMinMax"})]
      st1 == Balance(st0, w[bSrc], i, o, slop)
      st2 == Balance(st1, w[bSrc], o, i, slop)
  IN IF st0.af # {} THEN st0
     ELSE IF ~st2.ok THEN st2
     ELSE [st2 EXCEPT !.af =
             @ \cup (IF WithinSlop(st2.es, w[bSrc], i, o, slop) THEN {} ELSE {"reconcile.sum1"})
               \cup (IF WithinSlop(st2.es, w[bSrc], o, i, slop) THEN {} ELSE {"reconcile.sum2"})]

ReconcileEdge ==
  /\ pc = "reconcile"
  /\ cursor <= Len(cfg.edges)
  /\ LET st == Reconcile(cfg, bbWeight, edges, cursor)
         fatal == {"reconcile.edgeMinMax", "reconcile.otherMinMax"} \cap st.af # {}
     IN /\ edges' = st.es
        /\ usedSlop' = (usedSlop \/ st.used)
        /\ assertFailed' = assertFailed \cup st.af
        /\ IF fatal
           THEN /\ pc' = "fatal"
                /\ UNCHANGED <<cursor, inconsistentProfileData>>
           ELSE IF ~st.ok
           THEN /\ inconsistentProfileData' = TRUE
                /\ pc' = "exit"
                /\ UNCHANGED cursor
           ELSE /\ cursor' = NextCond(cfg, cursor + 1)
                /\ UNCHANGED <<pc, inconsistentProfileData>>
  /\ UNCHANGED <<extVars, firstRun, pgoVars, setterVars, insVars, cfgVars, blockVars, iterations, propVars, fgCalledCount, numEdges,
                 goodEdgeCountCurrent, goodEdgeCountPrevious, hasIncompleteEdgeWeights,
                 solverOut, written>>

\* The pred records of the block bDst, as indices of the edge list.
InEdges(c, bDst) == SeqOfSet({i \in 1..Len(c.edges) : Dst(c, i) = bDst})
OutEdges(c, bSrc) == SeqOfSet({i \in 1..Len(c.edges) : Src(c, i) = bSrc})

SumMin(es, idx) == SumSeq([k \in 1..Len(idx) |-> es[idx[k]].min])
SumMax(es, idx) == SumSeq([k \in 1..Len(idx) |-> es[idx[k]].max])

\* The body of the inner loop of the second loop of a pass, for the pred
\* record i into bDst; the sums are those taken before the loop.  st carries
\* good (goodEdgeCountCurrent) and inc (hasIncompleteEdgeWeights) too.
BalanceEdge(c, w, st, i, bDstWeight, minEdgeWeightSum, maxEdgeWeightSum) ==
  LET slop == Slop(w, Src(c, i), Dst(c, i))
      e0 == st.es[i]
      otherMaxEdgesWeightSum == maxEdgeWeightSum - e0.max
      otherMinEdgesWeightSum == minEdgeWeightSum - e0.min
      a0 == (IF maxEdgeWeightSum >= e0.max THEN {} ELSE {"balance.maxSum"})
              \cup (IF minEdgeWeightSum >= e0.min THEN {} ELSE {"balance.minSum"})
      s0 == [st EXCEPT !.af = @ \cup a0]
      minWeightCalc == bDstWeight - otherMaxEdgesWeightSum
      s1 == IF bDstWeight >= otherMaxEdgesWeightSum /\ minWeightCalc > e0.min
            THEN Apply(s0, i, setEdgeWeightMinChecked(e0, minWeightCalc, slop))
            ELSE s0
      maxWeightCalc == bDstWeight - otherMinEdgesWeightSum
      s2 == IF bDstWeight >= otherMinEdgesWeightSum /\ maxWeightCalc < s1.es[i].max
            THEN Apply(s1, i, setEdgeWeightMaxChecked(s1.es[i], maxWeightCalc, slop))
            ELSE s1
  IN IF a0 # {} THEN s0
     ELSE IF ~s2.ok THEN s2
     ELSE IF s2.es[i].min = s2.es[i].max
     THEN [s2 EXCEPT !.good = @ + 1]
     ELSE [s2 EXCEPT !.inc = TRUE]

RECURSIVE BalanceEdges(_, _, _, _, _, _, _, _)
BalanceEdges(c, w, st, idx, k, bDstWeight, minSum, maxSum) ==
  IF k > Len(idx) \/ ~st.ok \/ {"balance.maxSum", "balance.minSum"} \cap st.af # {}
  THEN st
  ELSE BalanceEdges(c, w, BalanceEdge(c, w, st, idx[k], bDstWeight, minSum, maxSum),
                    idx, k + 1, bDstWeight, minSum, maxSum)

WeightIsMax_Never(w, bDst) == FALSE

\* if (bDstWeight == BB_MAX_WEIGHT)
WeightIsMax(w, bDst) == w[bDst] = BB_MAX_WEIGHT

\* The body of the second loop of a pass, for the block bDst = cursor.
BalanceBlock ==
  /\ \/ pc = "reconcile" /\ cursor > Len(cfg.edges)
     \/ pc = "balance" /\ cursor <= NumBlocks(cfg)
  /\ LET bDst == IF pc = "reconcile" THEN 1 ELSE cursor
         idx == InEdges(cfg, bDst)
         st == BalanceEdges(cfg, bbWeight,
                            [es |-> edges, ok |-> TRUE, used |-> FALSE, af |-> {},
                             good |-> goodEdgeCountCurrent,
                             inc |-> hasIncompleteEdgeWeights],
                            idx, 1, DstWeight(bbWeight, fgCalledCount, bDst),
                            SumMin(edges, idx), SumMax(edges, idx))
     IN IF WeightIsMax(bbWeight, bDst)
        THEN /\ inconsistentProfileData' = TRUE
             /\ pc' = "exit"
             /\ UNCHANGED <<edges, cursor, usedSlop, assertFailed,
                            goodEdgeCountCurrent, hasIncompleteEdgeWeights>>
        ELSE /\ edges' = st.es
             /\ usedSlop' = (usedSlop \/ st.used)
             /\ assertFailed' = assertFailed \cup st.af
             /\ goodEdgeCountCurrent' = st.good
             /\ hasIncompleteEdgeWeights' = st.inc
             /\ IF {"balance.maxSum", "balance.minSum"} \cap st.af # {}
                THEN /\ pc' = "fatal"
                     /\ UNCHANGED <<cursor, inconsistentProfileData>>
                ELSE IF ~st.ok
                THEN /\ inconsistentProfileData' = TRUE
                     /\ pc' = "exit"
                     /\ UNCHANGED cursor
                ELSE /\ pc' = IF bDst = NumBlocks(cfg) THEN "passEnd" ELSE "balance"
                     /\ cursor' = bDst + 1
                     /\ UNCHANGED inconsistentProfileData
  /\ UNCHANGED <<extVars, firstRun, pgoVars, setterVars, insVars, cfgVars, blockVars, iterations, propVars, fgCalledCount, numEdges,
                 goodEdgeCountPrevious, solverOut, written>>

RunAnotherPass_Uncapped(inc, cur, prev, it) == inc /\ cur > prev

\* while (hasIncompleteEdgeWeights && (goodEdgeCountCurrent > goodEdgeCountPrevious) &&
\*        (iterations < 8))
RunAnotherPass(inc, cur, prev, it) == inc /\ cur > prev /\ it < MaxSolverIterations

\* The foot of the do-while loop.
EndPass ==
  /\ pc = "passEnd"
  /\ assertFailed' = assertFailed \cup
       (IF numEdges = goodEdgeCountCurrent /\ hasIncompleteEdgeWeights
        THEN {"endPass.incomplete"} ELSE {})
  /\ pc' = IF numEdges = goodEdgeCountCurrent THEN "exit"
           ELSE IF RunAnotherPass(hasIncompleteEdgeWeights, goodEdgeCountCurrent,
                                  goodEdgeCountPrevious, iterations)
           THEN "nextPass"
           ELSE "exit"
  /\ UNCHANGED <<extVars, firstRun, pgoVars, setterVars, insVars, cfgVars, blockVars, edges, cursor, iterations, propVars,
                 fgCalledCount, solverLocals, solverOut, written>>

\* EARLY_EXIT and what follows it.
EarlyExit ==
  /\ pc = "exit"
  /\ fgSlopUsedInEdgeWeights' = usedSlop
  /\ fgRangeUsedInEdgeWeights' = (\E i \in 1..Len(edges) : edges[i].min # edges[i].max)
  /\ fgHaveValidEdgeWeights' = ~inconsistentProfileData
  /\ fgEdgeWeightsComputed' = TRUE
  /\ pc' = "done"
  /\ UNCHANGED <<extVars, firstRun, pgoVars, setterVars, insVars, cfgVars, blockVars, edges, cursor, iterations, propVars,
                 fgCalledCount, solverLocals, fgEdgeCount, assertFailed, written>>

NoFirstRun == [done |-> FALSE, edges |-> <<>>]

\* fgComputeEdgeWeights called once more, after a run that ended with valid
\* edge weights, on the blocks and pred records as that run left them.
SecondRun ==
  /\ pc = "done"
  /\ fgEdgeWeightsComputed
  /\ fgHaveValidEdgeWeights
  /\ ~firstRun.done
  /\ firstRun' = [done |-> TRUE, edges |-> edges]
  /\ pc' = "edgeWeights"
  /\ UNCHANGED <<extVars, pgoVars, setterVars, insVars, cfgVars, blockVars, edges, cursor, iterations,
                 propVars, fgCalledCount, solverLocals, solverOut, assertFailed, written>>

(***************************************************************************)
(* fgComputeBlockAndEdgeWeights.                                           *)
(***************************************************************************)
fgComputeBlockAndEdgeWeights ==
  /\ pc = "start"
  /\ fgHaveValidEdgeWeights' = FALSE
  /\ fgCalledCount' = BB_UNITY_WEIGHT
  /\ pc' = "propagate"
  /\ UNCHANGED <<extVars, firstRun, pgoVars, setterVars, insVars, cfgVars, blockVars, edges, cursor, iterations, propVars,
                 solverLocals, fgEdgeCount, fgEdgeWeightsComputed,
                 fgSlopUsedInEdgeWeights, fgRangeUsedInEdgeWeights, assertFailed,
                 written>>

(***************************************************************************)
(* fgInstrumentMethod.                                                     *)
(***************************************************************************)
\* A call node: virtual is IsVirtual(), indirect is gtCallType = CT_INDIRECT,
\* stub is IsVirtualStub().
VtableCall == [virtual |-> TRUE, indirect |-> FALSE, stub |-> FALSE]
StubCall == [virtual |-> TRUE, indirect |-> FALSE, stub |-> TRUE]
IndirectCall == [virtual |-> TRUE, indirect |-> TRUE, stub |-> FALSE]
DirectCall == [virtual |-> FALSE, indirect |-> FALSE, stub |-> FALSE]

\* The blocks a method is made of: imported is BBF_IMPORTED, internal is
\* BBF_INTERNAL, hcp is BBF_HAS_CLASS_PROFILE, calls are the call nodes of
\* the block's statements in walk order.
BlockTemplates ==
  { [imported |-> FALSE, internal |-> FALSE, hcp |-> FALSE, calls |-> <<VtableCall>>],
    [imported |-> TRUE, internal |-> FALSE, hcp |-> FALSE, calls |-> <<>>],
    [imported |-> TRUE, internal |-> FALSE, hcp |-> FALSE, calls |-> <<DirectCall>>],
    [imported |-> TRUE, internal |-> TRUE, hcp |-> FALSE, calls |-> <<>>],
    [imported |-> TRUE, internal |-> FALSE, hcp |-> TRUE, calls |-> <<VtableCall>>],
    [imported |-> TRUE, internal |-> FALSE, hcp |-> TRUE,
     calls |-> <<StubCall, IndirectCall, DirectCall>>],
    [imported |-> TRUE, internal |-> TRUE, hcp |-> TRUE, calls |-> <<VtableCall, StubCall>>] }

\* bbCodeOffs of the b-th block, the IL offset and the saved stub address of
\* the k-th call of the b-th block, the address of the host's buffer.
bbCodeOffs(b) == (b - 1) * 16
CallILOffset(b, k) == bbCodeOffs(b) + k
CandidateStubAddr(b, k) == 4096 + bbCodeOffs(b) + k
BufferBase == 65536 * 16

\* ICorJitInfo: the class-profile flags and the histogram size.
CLASS_FLAG == {"CLASS_FLAG"}
INTERFACE_FLAG == {"INTERFACE_FLAG"}
HistogramSize == 8

\* ClassProbeVisitor::PreOrderVisit: the calls the functor is applied to.
IsProbedCall(call) == call.virtual /\ ~call.indirect

ClassProbeEntries_CountOnly(call, ilOffset) ==
  << [kind |-> "TypeHandleHistogramCount", ilOffset |-> ilOffset, count |-> 1,
      other |-> CLASS_FLAG, offset |-> 0] >>

\* BuildClassProbeSchemaGen::operator(): the two entries of one class probe.
ClassProbeEntries(call, ilOffset) ==
  LET other == IF call.stub THEN CLASS_FLAG \cup INTERFACE_FLAG ELSE CLASS_FLAG
  IN << [kind |-> "TypeHandleHistogramCount", ilOffset |-> ilOffset, count |-> 1,
         other |-> other, offset |-> 0],
        [kind |-> "TypeHandleHistogramTypeHandle", ilOffset |-> ilOffset,
         count |-> HistogramSize, other |-> other, offset |-> 0] >>

RECURSIVE ClassProbeSchema(_, _, _)
ClassProbeSchema(blk, b, k) ==
  IF k > Len(blk.calls) THEN <<>>
  ELSE (IF IsProbedCall(blk.calls[k])
        THEN ClassProbeEntries(blk.calls[k], CallILOffset(b, k)) ELSE <<>>)
         \o ClassProbeSchema(blk, b, k + 1)

BlockCountEntry(b) ==
  [kind |-> "BasicBlockIntCount", ilOffset |-> bbCodeOffs(b), count |-> 1,
   other |-> {}, offset |-> 0]

SchemaForBlock_Prepends(blk, b, st) ==
  IF ~blk.imported THEN st
  ELSE LET s1 == IF blk.hcp THEN st.schema \o ClassProbeSchema(blk, b, 1) ELSE st.schema
       IN IF blk.internal
          THEN [st EXCEPT !.schema = s1]
          ELSE [schema |-> <<BlockCountEntry(b)>> \o s1,
                countOfBlocks |-> st.countOfBlocks + 1]

\* The body of the first loop over the blocks; st is [schema, countOfBlocks].
SchemaForBlock(blk, b, st) ==
  IF ~blk.imported THEN st
  ELSE LET s1 == IF blk.hcp THEN st.schema \o ClassProbeSchema(blk, b, 1) ELSE st.schema
       IN IF blk.internal
          THEN [st EXCEPT !.schema = s1]
          ELSE [schema |-> Append(s1, BlockCountEntry(b)),
                countOfBlocks |-> st.countOfBlocks + 1]

RECURSIVE SchemaForBlocks(_, _, _)
SchemaForBlocks(blks, b, st) ==
  IF b > Len(blks) THEN st
  ELSE SchemaForBlocks(blks, b + 1, SchemaForBlock(blks[b], b, st))

\* The first loop, the count of the class probes and the check of the
\* schema's size.
BuildSchema ==
  /\ pc = "instrument"
  /\ LET st == SchemaForBlocks(method.blocks, 1, [schema |-> <<>>, countOfBlocks |-> 0])
     IN /\ schema' = st.schema
        /\ countOfBlocks' = st.countOfBlocks
        /\ countOfCalls' = method.compClassProbeCount
        /\ assertFailed' = assertFailed \cup
             (IF method.compClassProbeCount * 2 + st.countOfBlocks = Len(st.schema)
              THEN {} ELSE {"instrument.schemaSize"})
  /\ pc' = "schemaBuilt"
  /\ UNCHANGED <<extVars, pgoVars, setterVars, optVars, cursor, method, instrument, currentSchemaIndex,
                 addrOfFirstExecutionCount, profileMemory, counters, calls, lvaCount,
                 entryHook, allocCalls>>

\* The host's layout of the counters: every entry gets the offset at which
\* its count elements start (4 bytes for a count, 8 for a type handle).
EntrySize(e) == (IF e.kind = "TypeHandleHistogramTypeHandle" THEN 8 ELSE 4) * e.count

RECURSIVE OffsetOf(_, _)
OffsetOf(sch, i) == IF i = 1 THEN 0 ELSE OffsetOf(sch, i - 1) + EntrySize(sch[i - 1])

allocPgoInstrumentationBySchema(sch) ==
  [i \in 1..Len(sch) |-> [sch[i] EXCEPT !.offset = OffsetOf(sch, i)]]

\* The optional bail-out for methods with fewer than three blocks and no call
\* sites to profile.
Bails_WhenCallsRemain == method.minimalProfiling /\ countOfBlocks < 3 /\ countOfCalls # 0

Bails == method.minimalProfiling /\ countOfBlocks < 3 /\ countOfCalls = 0

MinimalProfilingBailout ==
  /\ pc = "schemaBuilt"
  /\ Bails
  /\ assertFailed' = assertFailed \cup
       (IF countOfBlocks = 1 THEN {} ELSE {"instrument.oneBlock"})
  /\ pc' = "done"
  /\ UNCHANGED <<extVars, pgoVars, setterVars, optVars, cursor, insVars>>

AllocateCounters_ContinuesOnFailure ==
  /\ pc = "schemaBuilt"
  /\ ~Bails
  /\ allocCalls' = allocCalls + 1
  /\ instrument' = TRUE
  /\ schema' = allocPgoInstrumentationBySchema(schema)
  /\ profileMemory' = BufferBase
  /\ pc' = "insert"
  /\ currentSchemaIndex' = 0
  /\ addrOfFirstExecutionCount' = 0
  /\ UNCHANGED <<extVars, pgoVars, setterVars, optVars, cursor, method, countOfBlocks, countOfCalls, counters, calls,
                 lvaCount, entryHook, assertFailed>>

\* The allocation of the profile buffer.
AllocateCounters ==
  /\ pc = "schemaBuilt"
  /\ ~Bails
  /\ allocCalls' = allocCalls + 1
  /\ instrument' = (method.allocResult = "S_OK")
  /\ IF method.allocResult = "S_OK"
     THEN /\ schema' = allocPgoInstrumentationBySchema(schema)
          /\ profileMemory' = BufferBase
     ELSE UNCHANGED <<schema, profileMemory>>
  /\ pc' = IF method.allocResult \in {"S_OK", "E_NOTIMPL"} THEN "insert" ELSE "fatal"
  /\ assertFailed' = assertFailed \cup
       (IF method.allocResult \in {"S_OK", "E_NOTIMPL"} THEN {} ELSE {"instrument.allocFailed"})
  /\ currentSchemaIndex' = 0
  /\ addrOfFirstExecutionCount' = 0
  /\ UNCHANGED <<extVars, pgoVars, setterVars, optVars, cursor, method, countOfBlocks, countOfCalls, counters, calls,
                 lvaCount, entryHook>>

\* The address of the counters of the schema entry at the (0-based) index i.
EntryAddress(sch, mem, i) == IF i + 1 <= Len(sch) THEN sch[i + 1].offset + mem ELSE 0

InsertClassProbe_IgnoresInstrument(sch, mem, ins, st, b, k) ==
  [st EXCEPT !.calls[b][k].thisProbe = EntryAddress(sch, mem, st.idx),
             !.calls[b][k].tmp = st.lva + 1,
             !.idx = @ + 2,
             !.lva = @ + 1,
             !.mcount = @ + 1,
             !.calls[b][k].stubAddr = CandidateStubAddr(b, k),
             !.calls[b][k].restored = @ + 1]

\* ClassProbeInserter::operator() on the k-th call of the block b; st carries
\* idx (currentSchemaIndex), calls, lva and m_count.
InsertClassProbe(sch, mem, ins, st, b, k) ==
  LET st1 == IF ins
             THEN [st EXCEPT !.calls[b][k].thisProbe = EntryAddress(sch, mem, st.idx),
                             !.calls[b][k].tmp = st.lva + 1,
                             !.idx = @ + 2,
                             !.lva = @ + 1]
             ELSE st
  IN [st1 EXCEPT !.mcount = @ + 1,
                 !.calls[b][k].stubAddr = CandidateStubAddr(b, k),
                 !.calls[b][k].restored = @ + 1]

RECURSIVE InsertClassProbes(_, _, _, _, _, _, _)
InsertClassProbes(blk, sch, mem, ins, st, b, k) ==
  IF k > Len(blk.calls) THEN st
  ELSE InsertClassProbes(blk, sch, mem, ins,
                         IF IsProbedCall(blk.calls[k])
                         THEN InsertClassProbe(sch, mem, ins, st, b, k) ELSE st,
                         b, k + 1)

\* The body of the second loop over the blocks.
InstrumentBlock(m, sch, mem, ins, st, b) ==
  LET blk == m.blocks[b]
      a1 == IF m.classProfiling /\ m.prejit THEN {"insert.notPrejit"} ELSE {}
      p == InsertClassProbes(blk, sch, mem, ins, [st EXCEPT !.mcount = 0], b, 1)
      st1 == IF m.classProfiling
             THEN IF blk.hcp
                  THEN [p EXCEPT !.countOfCalls = @ - p.mcount,
                                 !.af = @ \cup a1 \cup
                                   (IF p.mcount <= st.countOfCalls THEN {}
                                    ELSE {"insert.callCount"})]
                  ELSE [st EXCEPT !.af = @ \cup a1]
             ELSE st
      addr == EntryAddress(sch, mem, st1.idx)
  IN IF ~blk.imported THEN st
     ELSE IF blk.internal THEN st1
     ELSE IF ~ins THEN [st1 EXCEPT !.countOfBlocks = @ - 1]
     ELSE [st1 EXCEPT !.countOfBlocks = @ - 1,
                      !.af = @ \cup
                        (IF st1.idx + 1 <= Len(sch) /\ bbCodeOffs(b) = sch[st1.idx + 1].ilOffset
                         THEN {} ELSE {"insert.ilOffset"}),
                      !.first = IF @ = 0 THEN addr ELSE @,
                      !.idx = @ + 1,
                      !.counters[b] = <<addr>> \o @]

RECURSIVE InstrumentBlocks(_, _, _, _, _, _)
InstrumentBlocks(m, sch, mem, ins, st, b) ==
  IF b > Len(m.blocks) THEN st
  ELSE InstrumentBlocks(m, sch, mem, ins, InstrumentBlock(m, sch, mem, ins, st, b), b + 1)

\* The second loop: the probes and the counters.
InsertProbes ==
  /\ pc = "insert"
  /\ LET st == InstrumentBlocks(method, schema, profileMemory, instrument,
                                [idx |-> currentSchemaIndex, countOfBlocks |-> countOfBlocks,
                                 countOfCalls |-> countOfCalls,
                                 first |-> addrOfFirstExecutionCount,
                                 counters |-> counters, calls |-> calls, lva |-> lvaCount,
                                 mcount |-> 0, af |-> {}], 1)
     IN /\ currentSchemaIndex' = st.idx
        /\ countOfBlocks' = st.countOfBlocks
        /\ countOfCalls' = st.countOfCalls
        /\ addrOfFirstExecutionCount' = st.first
        /\ counters' = st.counters
        /\ calls' = st.calls
        /\ lvaCount' = st.lva
        /\ assertFailed' = assertFailed \cup st.af
  /\ pc' = "inserted"
  /\ UNCHANGED <<extVars, pgoVars, setterVars, optVars, cursor, method, schema, instrument, profileMemory, entryHook,
                 allocCalls>>

FinishInstrument_HookWithoutPrejit ==
  /\ pc = "inserted"
  /\ IF ~instrument
     THEN /\ pc' = "done"
          /\ UNCHANGED <<entryHook, assertFailed>>
     ELSE IF countOfBlocks # 0 \/ countOfCalls # 0
     THEN /\ pc' = "fatal"
          /\ assertFailed' = assertFailed \cup {"finish.counts"}
          /\ UNCHANGED entryHook
     ELSE /\ pc' = "done"
          /\ entryHook' = [addr |-> addrOfFirstExecutionCount, arg |-> "embeddedHandle"]
          /\ UNCHANGED assertFailed
  /\ UNCHANGED <<extVars, pgoVars, setterVars, optVars, cursor, method, schema, countOfBlocks, countOfCalls, instrument,
                 currentSchemaIndex, addrOfFirstExecutionCount, profileMemory, counters,
                 calls, lvaCount, allocCalls>>

\* What follows the second loop: the checks of the counts and, when
\* prejitting, the method-entry callback.
FinishInstrument ==
  /\ pc = "inserted"
  /\ IF ~instrument
     THEN /\ pc' = "done"
          /\ UNCHANGED <<entryHook, assertFailed>>
     ELSE IF countOfBlocks # 0 \/ countOfCalls # 0
     THEN /\ pc' = "fatal"
          /\ assertFailed' = assertFailed \cup
               (IF countOfBlocks # 0 THEN {"finish.countOfBlocks"} ELSE {})
               \cup (IF countOfCalls # 0 THEN {"finish.countOfCalls"} ELSE {})
          /\ UNCHANGED entryHook
     ELSE /\ pc' = "done"
          /\ entryHook' = IF method.prejit
                          THEN [addr |-> addrOfFirstExecutionCount,
                                arg |-> IF method.readyToRun THEN "resolvedToken"
                                        ELSE "embeddedHandle"]
                          ELSE entryHook
          /\ UNCHANGED assertFailed
  /\ UNCHANGED <<extVars, pgoVars, setterVars, optVars, cursor, method, schema, countOfBlocks, countOfCalls, instrument,
                 currentSchemaIndex, addrOfFirstExecutionCount, profileMemory, counters,
                 calls, lvaCount, allocCalls>>

\* The instrumenter at rest: the state of its variables while another part of
\* the compiler runs.
(***************************************************************************)
(* The profile data of the method: fgHaveProfileData and                   *)
(* fgGetProfileWeightForBasicBlock.  unsigned values are kept in their 32  *)
(* bits as four bytes, least significant first, so that the product and    *)
(* the exclusive or of the stress hash wrap as they do in the code.        *)
(***************************************************************************)
Word(n) == <<n % 256, (n \div 256) % 256, (n \div 65536) % 256, (n \div 16777216) % 256>>

AllOnes == <<255, 255, 255, 255>>

\* a * b in unsigned 32-bit arithmetic
MulWord(a, b) ==
  LET c1 == a[1] * b[1]
      c2 == a[1] * b[2] + a[2] * b[1] + (c1 \div 256)
      c3 == a[1] * b[3] + a[2] * b[2] + a[3] * b[1] + (c2 \div 256)
      c4 == a[1] * b[4] + a[2] * b[3] + a[3] * b[2] + a[4] * b[1] + (c3 \div 256)
  IN  <<c1 % 256, c2 % 256, c3 % 256, c4 % 256>>

RECURSIVE XorBits(_, _)
XorBits(x, y) ==
  IF x = 0 THEN y
  ELSE IF y = 0 THEN x
  ELSE ((x + y) % 2) + 2 * XorBits(x \div 2, y \div 2)

\* a ^ b
XorWord(a, b) == <<XorBits(a[1], b[1]), XorBits(a[2], b[2]),
                   XorBits(a[3], b[3]), XorBits(a[4], b[4])>>

\* a % m for a small m
ModWord(a, m) ==
  ((((((a[4] % m) * 256 + a[3]) % m) * 256 + a[2]) % m) * 256 + a[1]) % m

\* (BasicBlock::weight_t)n for a 32-bit counter n: weight_t is a float with
\* a 24-bit significand, the conversion rounds to the nearest, ties to even.
RECURSIVE Ulp(_)
Ulp(n) == IF n < 16777216 THEN 1 ELSE 2 * Ulp(n \div 2)

ToWeight(n) ==
  LET u == Ulp(n)
      q == n \div u
      r == n % u
  IN  IF 2 * r < u THEN q * u
      ELSE IF 2 * r > u THEN (q + 1) * u
      ELSE IF q % 2 = 0 THEN q * u ELSE (q + 1) * u

NoSchema == [present |-> FALSE, entries |-> <<>>]

fgHaveProfileData(importOnly, pgoSchema) ==
  IF importOnly THEN FALSE ELSE pgoSchema.present

\* The weight the stress mode makes up for the block at offset.
StressHash(methodHash, seed, offset) ==
  XorWord(MulWord(methodHash, seed), MulWord(Word(offset), Word(1027)))

StressWeight_NoFloor(methodHash, seed, offset) ==
  LET hash == StressHash(methodHash, seed, offset)
  IN  IF ModWord(hash, 3) = 0 THEN 0
      ELSE IF ModWord(hash, 11) = 0
           THEN ModWord(hash, 23) * ModWord(hash, 29) * ModWord(hash, 31)
           ELSE ModWord(hash, 17) * ModWord(hash, 19)

StressWeight(methodHash, seed, offset) ==
  LET hash == StressHash(methodHash, seed, offset)
      weight == IF ModWord(hash, 3) = 0 THEN 0
                ELSE IF ModWord(hash, 11) = 0
                     THEN ModWord(hash, 23) * ModWord(hash, 29) * ModWord(hash, 31)
                     ELSE ModWord(hash, 17) * ModWord(hash, 19)
  IN  IF offset = 0 /\ weight = 0 THEN 1 + ModWord(hash, 5) ELSE weight

\* The schema entries the loop of fgGetProfileWeightForBasicBlock stops at.
Matching_AnyKind(pgoSchema, offset) ==
  {i \in 1..Len(pgoSchema.entries) : pgoSchema.entries[i].ILOffset = offset}

Matching(pgoSchema, offset) ==
  {i \in 1..Len(pgoSchema.entries) :
     /\ pgoSchema.entries[i].InstrumentationKind = "BasicBlockIntCount"
     /\ pgoSchema.entries[i].ILOffset = offset}

Lowest(S) == CHOOSE i \in S : \A j \in S : i <= j

\* The weight read from the profile data: found, and what *weightWB becomes
\* (wb, what it was, when nothing is stored).
LookupWeight(importOnly, pgoSchema, pgoData, offset, wb) ==
  IF ~fgHaveProfileData(importOnly, pgoSchema)
  THEN [found |-> FALSE, weight |-> wb]
  ELSE IF Matching(pgoSchema, offset) # {}
       THEN [found |-> TRUE,
             weight |-> ToWeight(pgoData[pgoSchema.entries[
                                   Lowest(Matching(pgoSchema, offset))].Offset])]
       ELSE [found |-> TRUE, weight |-> 0]

fgGetProfileWeightForBasicBlock_DataFirst(mh, seed, importOnly, sch, data, offset, wb) ==
  IF ~fgHaveProfileData(importOnly, sch)
  THEN [found |-> FALSE, weight |-> wb]
  ELSE IF seed # Word(0)
       THEN [found |-> TRUE, weight |-> StressWeight(mh, seed, offset)]
       ELSE LookupWeight(importOnly, sch, data, offset, wb)

fgGetProfileWeightForBasicBlock(mh, seed, importOnly, sch, data, offset, wb) ==
  IF seed # Word(0)
  THEN [found |-> TRUE, weight |-> StressWeight(mh, seed, offset)]
  ELSE LookupWeight(importOnly, sch, data, offset, wb)

\* The profile checker has not run.
ChkIdle ==
  /\ ehBoundaryIn = {}
  /\ ehBoundaryOut = {}
  /\ jitProfileChecks = 0
  /\ problemBlocks = 0

\* No inlinee whose scale is wanted.
ScaleIdle ==
  /\ iciBlock = [prof |-> FALSE, weight |-> BB_ZERO_WEIGHT]
  /\ profileScaleState = "UNDETERMINED"
  /\ profileScaleFactor = [num |-> 0, den |-> 1]
  /\ scaleCalls = 0

ExtIdle == ChkIdle /\ ScaleIdle

\* No lookup in the profile data.
PgoIdle ==
  /\ fgPgoSchema = NoSchema
  /\ fgPgoData = <<>>
  /\ compIsForImportOnly = FALSE
  /\ hashSeed = Word(0)
  /\ compMethodHash = Word(0)
  /\ ilOffs = 0
  /\ weightWB = BB_ZERO_WEIGHT
  /\ found = FALSE

NoMethod == [blocks |-> <<>>, minimalProfiling |-> FALSE, classProfiling |-> FALSE,
             prejit |-> FALSE, readyToRun |-> FALSE, allocResult |-> "S_OK",
             compClassProbeCount |-> 0]

InsIdle ==
  /\ method = NoMethod
  /\ schema = <<>>
  /\ countOfBlocks = 0
  /\ countOfCalls = 0
  /\ instrument = FALSE
  /\ currentSchemaIndex = 0
  /\ addrOfFirstExecutionCount = 0
  /\ profileMemory = 0
  /\ counters = <<>>
  /\ calls = <<>>
  /\ lvaCount = 0
  /\ entryHook = [addr |-> 0, arg |-> "none"]
  /\ allocCalls = 0

\* No setter called on its own.
SetterIdle ==
  /\ flEdge = [min |-> BB_ZERO_WEIGHT, max |-> BB_MAX_WEIGHT]
  /\ setterCall = [op |-> "none"]
  /\ wbUsedSlop = FALSE

\* A flow graph with its pred lists (bbPreds), reference counts (bbRefs) and
\* the list of all pred records.
Graph(shape) ==
  [kind |-> shape.kind, dest |-> shape.dest, targets |-> shape.targets,
   internal |-> shape.internal, scratch |-> shape.scratch,
   preds |-> [b \in Blocks(shape) |-> Preds(shape, b)],
   refs |-> [b \in Blocks(shape) |-> countOfInEdges(shape, b)],
   edges |-> EdgeList(shape)]

Graphs == {Graph(Shapes[i]) : i \in 1..Len(Shapes)}

\* The block weights a compilation starts from: small counts on every graph
\* and, on the diamond, counts large enough for GetSlopFraction to be above 0.
LargeEntry == {SlopDivisor + k : k \in 0..MaxW}
LargeArm == {(SlopDivisor \div 2) + k : k \in (0 - MaxW)..MaxW}
\* The small weights with BB_MAX_WEIGHT on one block that is not the first,
\* and BB_MAX_WEIGHT on every block.
WithMaxWeight(c) ==
  {[w EXCEPT ![b] = BB_MAX_WEIGHT] : w \in [Blocks(c) -> Weights], b \in Blocks(c) \ {1}}
    \cup {[b \in Blocks(c) |-> BB_MAX_WEIGHT]}

WeightChoices(c) ==
  IF c = Graph(Cascade) THEN {CascadeWeights}
  ELSE [Blocks(c) -> Weights]
         \cup (IF c = Graph(Diamond)
               THEN {<<W, a, b, W>> : W \in LargeEntry, a \in LargeArm, b \in LargeArm}
               ELSE {})
         \cup (IF c = Graph(Chain3) \/ c = Graph(Switch3) THEN WithMaxWeight(c) ELSE {})

\* The blocks that have a profile weight when a compilation starts: the
\* first IL block and all but MaxUnprofiled blocks at most; every block of
\* the cascade.
ProfChoices(c) ==
  IF c = Graph(Cascade) THEN {[b \in Blocks(c) |-> TRUE]}
  ELSE {p \in [Blocks(c) -> BOOLEAN] :
          /\ Cardinality({b \in Blocks(c) : ~p[b]}) <= MaxUnprofiled
          /\ p[FirstILBlock(c)]}

Init ==
  /\ cfg \in Graphs
  /\ isOptimizing \in BOOLEAN
  /\ usingProfileWeights \in BOOLEAN
  /\ bbWeight \in WeightChoices(cfg)
  /\ bbProf \in ProfChoices(cfg)
  /\ bbRare = [b \in Blocks(cfg) |-> bbWeight[b] = 0]
  /\ edges = [i \in 1..Len(cfg.edges) |-> setEdgeWeights(BB_ZERO_WEIGHT, BB_MAX_WEIGHT)]
  /\ pc = "start"
  /\ cursor = 0
  /\ iterations = 0
  /\ changed = FALSE
  /\ returnWeight = 0
  /\ fgCalledCount = BB_ZERO_WEIGHT
  /\ numEdges = 0
  /\ goodEdgeCountCurrent = 0
  /\ goodEdgeCountPrevious = 0
  /\ inconsistentProfileData = FALSE
  /\ hasIncompleteEdgeWeights = FALSE
  /\ usedSlop = FALSE
  /\ fgEdgeCount = 0
  /\ fgHaveValidEdgeWeights = FALSE
  /\ fgEdgeWeightsComputed = FALSE
  /\ fgSlopUsedInEdgeWeights = FALSE
  /\ fgRangeUsedInEdgeWeights = FALSE
  /\ assertFailed = {}
  /\ written = [fromData |-> {b \in Blocks(cfg) : bbProf[b]},
                propagated |-> {}, scratch |-> {}]
  /\ firstRun = NoFirstRun
  /\ InsIdle
  /\ SetterIdle
  /\ PgoIdle
  /\ ExtIdle

Next ==
  \/ fgComputeBlockAndEdgeWeights
  \/ PropagateScan
  \/ fgComputeCalledCount
  \/ fgComputeEdgeWeights
  \/ InitEdge
  \/ BeginPass
  \/ ReconcileEdge
  \/ BalanceBlock
  \/ EndPass
  \/ EarlyExit
  \/ SecondRun

Spec == Init /\ [][Next]_vars

(***************************************************************************)
(* The same compilation on three-block graphs B1 -> B2 -> B3 whose middle  *)
(* block has each jump kind in turn and targets the entry block or the     *)
(* last one.  A BBJ_RETURN or BBJ_THROW block has no successor; for these  *)
(* two kinds the graph holds a pred record that names the block as its     *)
(* source all the same, which is the case the default label of the switch  *)
(* on bbJumpKind in the first loop of fgComputeEdgeWeights is there for.   *)
(***************************************************************************)
NoSuccessor == {"RETURN", "THROW"}
JumpKinds == Unconditional \cup MultiWay \cup NoSuccessor

KindShape(k, t) ==
  [kind |-> <<"NONE", k, "RETURN">>,
   dest |-> <<0, IF k \in {"ALWAYS", "CALLFINALLY", "EHCATCHRET", "COND"} THEN t ELSE 0, 0>>,
   targets |-> <<{}, IF k \in {"SWITCH", "EHFINALLYRET", "EHFILTERRET"} THEN {t} ELSE {}, {}>>,
   internal |-> <<FALSE, FALSE, FALSE>>, scratch |-> FALSE]

\* The pred lists of g with one more record, s -> d.
WithPred(g, s, d) ==
  LET preds == [g.preds EXCEPT ![d] = SeqOfSet({@[i] : i \in 1..Len(@)} \cup {s})]
      from(b) == [i \in 1..Len(preds[b]) |-> <<preds[b][i], b>>]
  IN [g EXCEPT !.preds = preds,
               !.refs[d] = @ + 1,
               !.edges = from(1) \o from(2) \o from(3)]

KindGraph(k, t) ==
  IF k \in NoSuccessor THEN WithPred(Graph(KindShape(k, t)), 2, t)
  ELSE Graph(KindShape(k, t))

KindGraphs ==
  {KindGraph(k, t) : k \in JumpKinds \ {"NONE"}, t \in {1, 3}}
    \cup {KindGraph("NONE", 3), Graph(ScratchLoop)}

InitJumpKinds ==
  /\ cfg \in KindGraphs
  /\ isOptimizing = TRUE
  /\ usingProfileWeights = TRUE
  /\ bbWeight \in [Blocks(cfg) -> Weights]
  /\ bbProf \in ProfChoices(cfg)
  /\ bbRare = [b \in Blocks(cfg) |-> bbWeight[b] = 0]
  /\ edges = [i \in 1..Len(cfg.edges) |-> setEdgeWeights(BB_ZERO_WEIGHT, BB_MAX_WEIGHT)]
  /\ pc = "start"
  /\ cursor = 0
  /\ iterations = 0
  /\ changed = FALSE
  /\ returnWeight = 0
  /\ fgCalledCount = BB_ZERO_WEIGHT
  /\ numEdges = 0
  /\ goodEdgeCountCurrent = 0
  /\ goodEdgeCountPrevious = 0
  /\ inconsistentProfileData = FALSE
  /\ hasIncompleteEdgeWeights = FALSE
  /\ usedSlop = FALSE
  /\ fgEdgeCount = 0
  /\ fgHaveValidEdgeWeights = FALSE
  /\ fgEdgeWeightsComputed = FALSE
  /\ fgSlopUsedInEdgeWeights = FALSE
  /\ fgRangeUsedInEdgeWeights = FALSE
  /\ assertFailed = {}
  /\ written = [fromData |-> {b \in Blocks(cfg) : bbProf[b]},
                propagated |-> {}, scratch |-> {}]
  /\ firstRun = NoFirstRun
  /\ InsIdle
  /\ SetterIdle
  /\ PgoIdle
  /\ ExtIdle

SpecJumpKinds == InitJumpKinds /\ [][Next]_vars

(***************************************************************************)
(* The instrumenter on its own: every method of up to MaxInstrBlocks       *)
(* blocks, every combination of the options and every answer of the host.  *)
(***************************************************************************)
RECURSIVE SeqsUpTo(_, _)
SeqsUpTo(S, n) ==
  IF n = 0 THEN {<<>>}
  ELSE LET shorter == SeqsUpTo(S, n - 1)
       IN shorter \cup {Append(q, x) : q \in {r \in shorter : Len(r) = n - 1}, x \in S}

\* The class probes the importer counted: the calls the visitor will find.
ProbedCalls(blks) ==
  SumSeq([b \in 1..Len(blks) |->
            IF blks[b].imported /\ blks[b].hcp
            THEN Len(SelectSeq(blks[b].calls, IsProbedCall)) ELSE 0])

Methods ==
  {[blocks |-> blks, minimalProfiling |-> mp, classProfiling |-> cp, prejit |-> pj[1],
    readyToRun |-> pj[2], allocResult |-> res, compClassProbeCount |-> ProbedCalls(blks)] :
     blks \in SeqsUpTo(BlockTemplates, MaxInstrBlocks) \ {<<>>},
     mp \in BOOLEAN, cp \in BOOLEAN,
     pj \in {<<FALSE, FALSE>>, <<TRUE, FALSE>>, <<TRUE, TRUE>>},
     res \in {"S_OK", "E_NOTIMPL", "E_FAIL"}}

\* The weight reconstruction at rest.
OptIdle ==
  /\ cfg = Graph(Chain3)
  /\ isOptimizing = FALSE
  /\ usingProfileWeights = FALSE
  /\ bbWeight = <<0, 0, 0>>
  /\ bbProf = <<FALSE, FALSE, FALSE>>
  /\ bbRare = <<TRUE, TRUE, TRUE>>
  /\ edges = <<>>
  /\ iterations = 0
  /\ changed = FALSE
  /\ returnWeight = 0
  /\ fgCalledCount = BB_ZERO_WEIGHT
  /\ numEdges = 0
  /\ goodEdgeCountCurrent = 0
  /\ goodEdgeCountPrevious = 0
  /\ inconsistentProfileData = FALSE
  /\ hasIncompleteEdgeWeights = FALSE
  /\ usedSlop = FALSE
  /\ fgEdgeCount = 0
  /\ fgHaveValidEdgeWeights = FALSE
  /\ fgEdgeWeightsComputed = FALSE
  /\ fgSlopUsedInEdgeWeights = FALSE
  /\ fgRangeUsedInEdgeWeights = FALSE
  /\ written = [fromData |-> {}, propagated |-> {}, scratch |-> {}]
  /\ firstRun = NoFirstRun

InitInstr ==
  /\ OptIdle
  /\ SetterIdle
  /\ PgoIdle
  /\ ExtIdle
  /\ method \in Methods
  /\ schema = <<>>
  /\ countOfBlocks = 0
  /\ countOfCalls = 0
  /\ instrument = FALSE
  /\ currentSchemaIndex = 0
  /\ addrOfFirstExecutionCount = 0
  /\ profileMemory = 0
  /\ counters = [b \in 1..Len(method.blocks) |-> <<>>]
  /\ calls = [b \in 1..Len(method.blocks) |->
               [k \in 1..Len(method.blocks[b].calls) |->
                  [thisProbe |-> 0, tmp |-> 0, stubAddr |-> 0, restored |-> 0]]]
  /\ lvaCount = 0
  /\ entryHook = [addr |-> 0, arg |-> "none"]
  /\ allocCalls = 0
  /\ pc = "instrument"
  /\ cursor = 0
  /\ assertFailed = {}

NextInstr ==
  \/ BuildSchema
  \/ MinimalProfilingBailout
  \/ AllocateCounters
  \/ InsertProbes
  \/ FinishInstrument

SpecInstr == InitInstr /\ [][NextInstr]_vars

(***************************************************************************)
(* The checked setters on their own: one call of setEdgeWeightMinChecked   *)
(* or setEdgeWeightMaxChecked on a pred record with min <= max, for every  *)
(* small range, new weight and slop.                                       *)
(***************************************************************************)
Ranges == {[min |-> lo, max |-> hi] : lo \in 0..MaxSetW, hi \in 0..MaxSetW}

InitSetter ==
  /\ OptIdle
  /\ InsIdle
  /\ PgoIdle
  /\ ExtIdle
  /\ flEdge \in {e \in Ranges : e.min <= e.max}
  /\ setterCall \in {[op |-> "none", newWeight |-> w, slop |-> sl] :
                       w \in (0 - 1)..(MaxSetW + MaxSetSlop + 1), sl \in 0..MaxSetSlop}
  /\ wbUsedSlop \in BOOLEAN
  /\ pc = "setter"
  /\ cursor = 0
  /\ assertFailed = {}

\* The call, with what it found (before, usedBefore) and what it returned.
Returned(op, res) ==
  /\ flEdge' = res.e
  /\ wbUsedSlop' = (wbUsedSlop \/ res.used)
  /\ setterCall' = [op |-> op, newWeight |-> setterCall.newWeight, slop |-> setterCall.slop,
                    before |-> flEdge, usedBefore |-> wbUsedSlop, result |-> res.ok]
  /\ assertFailed' = assertFailed \cup res.af
  /\ pc' = "returned"
  /\ UNCHANGED <<extVars, pgoVars, optVars, cursor, insVars>>

CallSetMin ==
  /\ pc = "setter"
  /\ Returned("setMin", setEdgeWeightMinChecked(flEdge, setterCall.newWeight, setterCall.slop))

CallSetMax ==
  /\ pc = "setter"
  /\ Returned("setMax", setEdgeWeightMaxChecked(flEdge, setterCall.newWeight, setterCall.slop))

NextSetter ==
  \/ CallSetMin
  \/ CallSetMax

SpecSetter == InitSetter /\ [][NextSetter]_vars

(***************************************************************************)
(* The lookup on its own: one call of fgGetProfileWeightForBasicBlock, for *)
(* every small schema and counter buffer, with and without a stress seed.  *)
(***************************************************************************)
PgoKinds == {"BasicBlockIntCount", "TypeHandleHistogramCount"}

PgoOffsets == {0, 16}

\* A counter above 2^24, which a weight cannot hold exactly.
LargeCount == 16777216 + 1

PgoCounters == {1, 2, LargeCount}

\* The schemas of up to MaxPgoEntries entries; entry i has its 4 bytes at
\* Offset 4 * (i - 1) of the buffer.
PgoSchemas ==
  {NoSchema} \cup
  UNION {{[present |-> TRUE,
           entries |-> [i \in 1..n |->
                          [InstrumentationKind |-> k[i], ILOffset |-> o[i],
                           Offset |-> 4 * (i - 1)]]] :
            k \in [1..n -> PgoKinds], o \in [1..n -> PgoOffsets]} : n \in 0..MaxPgoEntries}

PgoDatas(pgoSchema) ==
  [{4 * (i - 1) : i \in 1..Len(pgoSchema.entries)} -> PgoCounters]

MethodHashes == {Word(b) : b \in 0..MaxHashByte} \cup {AllOnes}

HashSeeds == {Word(0), Word(1), Word(11), AllOnes}

InitWeightAt ==
  /\ OptIdle
  /\ InsIdle
  /\ SetterIdle
  /\ ExtIdle
  /\ fgPgoSchema \in PgoSchemas
  /\ fgPgoData \in PgoDatas(fgPgoSchema)
  /\ compIsForImportOnly \in BOOLEAN
  /\ hashSeed \in HashSeeds
  /\ compMethodHash \in MethodHashes
  /\ ilOffs \in PgoOffsets
  /\ weightWB = BB_UNITY_WEIGHT
  /\ found = FALSE
  /\ pc = "weightAt"
  /\ cursor = 0
  /\ assertFailed = {}

\* bool found = fgGetProfileWeightForBasicBlock(ilOffset, &weightWB)
CallWeightAt ==
  /\ pc = "weightAt"
  /\ LET r == fgGetProfileWeightForBasicBlock(compMethodHash, hashSeed, compIsForImportOnly,
                                              fgPgoSchema, fgPgoData, ilOffs, weightWB)
     IN  /\ found' = r.found
         /\ weightWB' = r.weight
  /\ pc' = "weightAtDone"
  /\ UNCHANGED <<extVars, optVars, cursor, assertFailed, insVars, setterVars, fgPgoSchema, fgPgoData,
                 compIsForImportOnly, hashSeed, compMethodHash, ilOffs>>

NextWeightAt == CallWeightAt

SpecWeightAt == InitWeightAt /\ [][NextWeightAt]_vars

(***************************************************************************)
(* fgDebugCheckProfileData, on its own: it runs between phases on whatever *)
(* weights, flags and ranges the phases left.  hasEHBoundaryIn and         *)
(* hasEHBoundaryOut of a block are given as two sets of blocks.            *)
(***************************************************************************)
MaxChkW == 1

\* The incoming flow of a block against its weight: 1 for a problem.
IncomingProblems(c, w, es, block) ==
  LET idx == InEdges(c, block)
      incomingWeightMin == SumMin(es, idx)
      incomingWeightMax == SumMax(es, idx)
  IN IF idx = <<>> THEN 1
     ELSE IF incomingWeightMin > incomingWeightMax THEN 1
     ELSE IF w[block] < incomingWeightMin THEN 1
     ELSE IF w[block] > incomingWeightMax THEN 1
     ELSE 0

\* The outgoing flow of a block against its weight: the pred record of each
\* successor that names the block is looked up in the successor's bbPreds.
OutgoingProblems(c, w, es, block) ==
  LET succs == SuccSet(c, block)
      succEdge(succBlock) == fgGetPredForBlock(c.edges, succBlock, block)
      missingEdges == Cardinality({succBlock \in succs : succEdge(succBlock) = 0})
      idx == SeqOfSet({succEdge(succBlock) : succBlock \in succs} \ {0})
      outgoingWeightMin == SumMin(es, idx)
      outgoingWeightMax == SumMax(es, idx)
  IN IF succs = {} THEN 1
     ELSE (IF missingEdges > 0 THEN 1 ELSE 0)
            + (IF outgoingWeightMin > outgoingWeightMax THEN 1
               ELSE IF w[block] < outgoingWeightMin THEN 1
               ELSE IF w[block] > outgoingWeightMax THEN 1
               ELSE 0)

IsExit(c, block) == c.kind[block] \in {"RETURN", "THROW"}

\* The body of the loop over the blocks: what the block adds to problemBlocks.
BlockProblems(c, w, prof, es, ehIn, ehOut, block) ==
  LET verifyIncoming == block # 1 /\ block \notin ehIn
      verifyOutgoing == ~IsExit(c, block) /\ block \notin ehOut
  IN IF ~prof[block] THEN 0
     ELSE (IF verifyIncoming THEN IncomingProblems(c, w, es, block) ELSE 0)
            + (IF verifyOutgoing THEN OutgoingProblems(c, w, es, block) ELSE 0)

\* exitWeight: the weights of the profiled BBJ_RETURN and BBJ_THROW blocks.
ExitWeight(c, w, prof) ==
  SumSeq([b \in Blocks(c) |-> IF prof[b] /\ IsExit(c, b) THEN w[b] ELSE 0])

VerifyBalance_Always(entryProfiled, exitProfiled) == TRUE

\* if (entryProfiled && exitProfiled)
VerifyBalance(entryProfiled, exitProfiled) == entryProfiled /\ exitProfiled

\* problemBlocks when fgDebugCheckProfileData is through.
ProblemBlocks(c, w, prof, es, ehIn, ehOut) ==
  LET entryWeight == IF prof[1] THEN w[1] ELSE 0
      exitProfiled == \E b \in Blocks(c) : prof[b] /\ IsExit(c, b)
  IN SumSeq([b \in Blocks(c) |-> BlockProblems(c, w, prof, es, ehIn, ehOut, b)])
       + (IF VerifyBalance(prof[1], exitProfiled) /\ entryWeight # ExitWeight(c, w, prof)
          THEN 1 ELSE 0)

fgDebugCheckProfileData ==
  /\ pc = "check"
  /\ problemBlocks' = ProblemBlocks(cfg, bbWeight, bbProf, edges, ehBoundaryIn, ehBoundaryOut)
  /\ assertFailed' = assertFailed \cup
       (IF problemBlocks' # 0 /\ jitProfileChecks = 2 THEN {"check.inconsistentProfile"} ELSE {})
  /\ pc' = "checked"
  /\ UNCHANGED <<optVars, cursor, insVars, setterVars, pgoVars, scaleVars,
                 ehBoundaryIn, ehBoundaryOut, jitProfileChecks>>

\* The pred lists of g without the record s -> d.
WithoutPred(g, s, d) ==
  LET preds == [g.preds EXCEPT ![d] = SeqOfSet({@[i] : i \in 1..Len(@)} \ {s})]
      from(b) == [i \in 1..Len(preds[b]) |-> <<preds[b][i], b>>]
  IN [g EXCEPT !.preds = preds,
               !.refs[d] = @ - 1,
               !.edges = from(1) \o from(2) \o from(3)]

\* A finally whose BBJ_EHFINALLYRET block has no continuation.
FinallyRet ==
  [kind |-> <<"NONE", "EHFINALLYRET", "RETURN">>, dest |-> <<0, 0, 0>>,
   targets |-> <<{}, {}, {}>>, internal |-> <<FALSE, FALSE, FALSE>>, scratch |-> FALSE]

\* The graphs checked: a chain, loops, a block nothing jumps to, a block
\* without successor, and a chain whose first pred record is missing.
CheckGraphs ==
  {Graph(Chain3), Graph(LoopToEntry), Graph(CondSame), Graph(ScratchLoop),
   KindGraph("ALWAYS", 1), Graph(FinallyRet), WithoutPred(Graph(Chain3), 1, 2)}

\* The ranges of a pred record: narrow ones and the range of a new record.
CheckRanges ==
  {setEdgeWeights(p[1], p[2]) :
     p \in {q \in (0..MaxChkW) \X (0..MaxChkW) : q[1] <= q[2] /\ q[2] <= q[1] + 1}}
    \cup {setEdgeWeights(BB_ZERO_WEIGHT, BB_MAX_WEIGHT)}

EHBlocks == {{}, {2}}

InitChecker ==
  /\ cfg \in CheckGraphs
  /\ isOptimizing = TRUE
  /\ usingProfileWeights = TRUE
  /\ bbWeight \in [Blocks(cfg) -> 0..MaxChkW]
  /\ bbProf \in [Blocks(cfg) -> BOOLEAN]
  /\ bbRare = [b \in Blocks(cfg) |-> bbWeight[b] = 0]
  /\ edges \in [1..Len(cfg.edges) -> CheckRanges]
  /\ ehBoundaryIn \in EHBlocks
  /\ ehBoundaryOut \in EHBlocks
  /\ jitProfileChecks \in {1, 2}
  /\ problemBlocks = 0
  /\ pc = "check"
  /\ cursor = 0
  /\ iterations = 0
  /\ changed = FALSE
  /\ returnWeight = 0
  /\ fgCalledCount = BB_ZERO_WEIGHT
  /\ numEdges = 0
  /\ goodEdgeCountCurrent = 0
  /\ goodEdgeCountPrevious = 0
  /\ inconsistentProfileData = FALSE
  /\ hasIncompleteEdgeWeights = FALSE
  /\ usedSlop = FALSE
  /\ fgEdgeCount = 0
  /\ fgHaveValidEdgeWeights = FALSE
  /\ fgEdgeWeightsComputed = FALSE
  /\ fgSlopUsedInEdgeWeights = FALSE
  /\ fgRangeUsedInEdgeWeights = FALSE
  /\ assertFailed = {}
  /\ written = [fromData |-> {b \in Blocks(cfg) : bbProf[b]},
                propagated |-> {}, scratch |-> {}]
  /\ firstRun = NoFirstRun
  /\ InsIdle
  /\ SetterIdle
  /\ PgoIdle
  /\ ScaleIdle

NextChecker == fgDebugCheckProfileData

SpecChecker == InitChecker /\ [][NextChecker]_vars

(***************************************************************************)
(* Properties of weight reconstruction and of the edge-weight solver.      *)
(***************************************************************************)
SolverDone == pc = "done" /\ fgEdgeWeightsComputed
AllProfiled == \A b \in Blocks(cfg) : bbProf[b]
IsShape(shape) == cfg.kind = shape.kind /\ cfg.dest = shape.dest /\ cfg.scratch = shape.scratch

\* C1: while the edge-weight solver runs, every pred record has
\* 0 <= min <= max, the pred records of the entry block included.
C1_EdgeRangeOrdered ==
  \A i \in 1..Len(edges) : 0 <= edges[i].min /\ edges[i].min <= edges[i].max

\* C2: when the solver ends with valid edge weights and without slop, the
\* weight of every block but the entry lies between the sum of the mins and
\* the sum of the maxes of its pred records.
C2_InFlowConserved ==
  (SolverDone /\ fgHaveValidEdgeWeights /\ ~fgSlopUsedInEdgeWeights) =>
     \A b \in Blocks(cfg) \ {1} :
        /\ SumMin(edges, InEdges(cfg, b)) <= bbWeight[b]
        /\ bbWeight[b] <= SumMax(edges, InEdges(cfg, b))

\* C3: when the solver ends with valid edge weights and without slop, the
\* weight of every block that is not a return or throw block lies between the
\* sum of the mins and the sum of the maxes of the pred records that leave it.
C3_OutFlowConserved ==
  (SolverDone /\ fgHaveValidEdgeWeights /\ ~fgSlopUsedInEdgeWeights) =>
     \A b \in Blocks(cfg) : cfg.kind[b] \notin {"RETURN", "THROW"} =>
        /\ SumMin(edges, OutEdges(cfg, b)) <= bbWeight[b]
        /\ bbWeight[b] <= SumMax(edges, OutEdges(cfg, b))

\* A profiled diamond: entry of weight W, arms, join of weight W.
ProfiledDiamond == IsShape(Diamond) /\ AllProfiled /\ bbWeight[4] = bbWeight[1]
Exact(i, w) == edges[i].min = w /\ edges[i].max = w

\* C4: on a profiled diamond whose arms weigh a and W - a the solver ends with
\* every pred record exact (entry->arm = the arm's weight, arm->join = the
\* arm's weight), with valid edge weights and no range in use.
C4_DiamondExact ==
  (ProfiledDiamond /\ bbWeight[2] + bbWeight[3] = bbWeight[1] /\ SolverDone) =>
     /\ Exact(1, bbWeight[2]) /\ Exact(2, bbWeight[3])
     /\ Exact(3, bbWeight[2]) /\ Exact(4, bbWeight[3])
     /\ fgHaveValidEdgeWeights
     /\ ~fgRangeUsedInEdgeWeights

C4_Witness ==
  /\ ProfiledDiamond /\ SolverDone
  /\ bbWeight[2] > 0 /\ bbWeight[3] > bbWeight[2]
  /\ bbWeight[2] + bbWeight[3] = bbWeight[1]
  /\ Exact(1, bbWeight[2]) /\ Exact(4, bbWeight[3])

Abs(x) == IF x < 0 THEN 0 - x ELSE x
Max3(a, b, c) == IF a >= b /\ a >= c THEN a ELSE IF b >= c THEN b ELSE c

\* The largest slop any setter call on the diamond is given.
DiamondSlop == (Max3(bbWeight[1], bbWeight[2], bbWeight[3]) \div SlopDivisor) + 1

\* C5: on a profiled diamond whose arms add up to a weight that differs from
\* W by more than the slop, the solver marks the profile inconsistent, stops
\* refining at once and ends without valid edge weights.
C5_DiamondInconsistent ==
  /\ inconsistentProfileData => pc \in {"exit", "done"}
  /\ (ProfiledDiamond /\ isOptimizing /\ usingProfileWeights
        /\ Abs(bbWeight[2] + bbWeight[3] - bbWeight[1]) > DiamondSlop
        /\ pc = "done")
       => (inconsistentProfileData /\ ~fgHaveValidEdgeWeights /\ fgEdgeWeightsComputed)

\* C5 as amended: the same, for arms that each weigh no more than the entry.
\* (The slop is given to each setter call, so an arm that outweighs the entry
\* by no more than the slop is absorbed pred record by pred record.)
C5_DiamondInconsistentArmsWithinEntry ==
  /\ inconsistentProfileData => pc \in {"exit", "done"}
  /\ (ProfiledDiamond /\ isOptimizing /\ usingProfileWeights
        /\ bbWeight[2] <= bbWeight[1] /\ bbWeight[3] <= bbWeight[1]
        /\ Abs(bbWeight[2] + bbWeight[3] - bbWeight[1]) > DiamondSlop
        /\ pc = "done")
       => (inconsistentProfileData /\ ~fgHaveValidEdgeWeights /\ fgEdgeWeightsComputed)

C5_Witness ==
  /\ ProfiledDiamond /\ SolverDone
  /\ DiamondSlop > 1
  /\ bbWeight[2] + bbWeight[3] - bbWeight[1] = DiamondSlop + 1
  /\ inconsistentProfileData /\ ~fgHaveValidEdgeWeights

\* C6: run-rarely is set on exactly the blocks of weight 0, before, during
\* and after weight reconstruction.
C6_RunRarelyIffZero ==
  \A b \in Blocks(cfg) : bbRare[b] <=> (bbWeight[b] = 0)

C6_Witness ==
  /\ pc = "edgeWeights"
  /\ \E b \in written.propagated : bbWeight[b] = 0 /\ bbRare[b]
  /\ 1 \in written.scratch /\ 1 \notin written.fromData /\ ~bbRare[1]

AfterReconstruction == pc \notin {"start", "propagate", "calledCount"}

\* C7: after weight reconstruction a block has its profile-weight flag iff
\* its weight came from the profile data, from the propagation, or it is the
\* scratch block that was given the called count.
C7_ProfFlagIffSourced ==
  AfterReconstruction =>
    \A b \in Blocks(cfg) :
       bbProf[b] <=> (b \in written.fromData \cup written.propagated \cup written.scratch)

\* C7 as amended: the flag is on exactly the blocks that had it before weight
\* reconstruction and the scratch block that was given the called count; the
\* propagation leaves the flag of the blocks it writes off.
C7_ProfFlagAmended ==
  AfterReconstruction =>
    /\ \A b \in Blocks(cfg) : bbProf[b] <=> (b \in written.fromData \cup written.scratch)
    /\ \A b \in written.propagated : ~bbProf[b]

C7_Witness ==
  /\ AfterReconstruction
  /\ written.propagated # {}
  /\ written.scratch # {}
  /\ 1 \notin written.fromData /\ bbProf[1]

\* C8: on the chain B1 (profiled, w) -> B2 (unprofiled) -> B3 (profiled, w,
\* return) the propagation gives B2 the weight w, sets its run-rarely flag
\* iff w = 0, returns w, and the called count is w.
ChainCase == IsShape(Chain3) /\ written.fromData = {1, 3} /\ bbWeight[1] = bbWeight[3]

C8_ChainPropagation ==
  (ChainCase /\ AfterReconstruction) =>
     /\ bbWeight[2] = bbWeight[1]
     /\ bbRare[2] <=> (bbWeight[1] = 0)
     /\ returnWeight = bbWeight[1]
     /\ usingProfileWeights => fgCalledCount = bbWeight[1]

C8_Witness ==
  /\ ChainCase /\ AfterReconstruction /\ usingProfileWeights
  /\ 2 \in written.propagated
  /\ bbWeight[2] = MaxW /\ fgCalledCount = MaxW /\ returnWeight = MaxW

\* The first block that carries IL, and its references.
FirstIL == IF cfg.internal[1] THEN 2 ELSE 1
FirstILRefs == Len(SelectSeq(cfg.edges, LAMBDA e : e[2] = FirstIL))
                 + (IF FirstIL = 1 THEN 1 ELSE 0)

\* C9: with profile weights in use the called count is the weight of the
\* first IL block when that block has one reference or the exits weigh 0, and
\* the weight of the exits otherwise; a scratch first block gets that weight.
C9_CalledCount ==
  (AfterReconstruction /\ usingProfileWeights) =>
     /\ (FirstILRefs = 1 \/ returnWeight = 0) => fgCalledCount = bbWeight[FirstIL]
     /\ (FirstILRefs # 1 /\ returnWeight # 0) => fgCalledCount = returnWeight
     /\ cfg.scratch => (bbWeight[1] = fgCalledCount /\ bbProf[1])

C9_Witness ==
  /\ AfterReconstruction /\ usingProfileWeights
  /\ cfg.scratch /\ FirstILRefs = 2
  /\ returnWeight > 0 /\ returnWeight # bbWeight[FirstIL]
  /\ fgCalledCount = returnWeight /\ bbWeight[1] = returnWeight

(***************************************************************************)
(* Properties of the instrumenter.                                         *)
(***************************************************************************)
\* The calls the class probes are for, and the blocks that get a counter.
ProbeSites ==
  UNION {{<<b, k>> : k \in {j \in 1..Len(method.blocks[b].calls) :
                             /\ method.blocks[b].calls[j].virtual
                             /\ ~method.blocks[b].calls[j].indirect}} :
           b \in {a \in 1..Len(method.blocks) :
                    method.blocks[a].imported /\ method.blocks[a].hcp}}
CountedBlocks ==
  {b \in 1..Len(method.blocks) : method.blocks[b].imported /\ ~method.blocks[b].internal}

\* C10: once the schema is built it has two entries for every virtual,
\* non-indirect call of an imported block with class probes and one entry
\* for every imported block that is not internal, which is
\* 2 * countOfCalls + countOfBlocks.
C10_SchemaLength ==
  pc = "schemaBuilt" =>
     /\ Len(schema) = 2 * Cardinality(ProbeSites) + Cardinality(CountedBlocks)
     /\ Len(schema) = 2 * countOfCalls + countOfBlocks

C10_Witness ==
  /\ pc = "schemaBuilt"
  /\ Cardinality(ProbeSites) = 3 /\ Cardinality(CountedBlocks) = 1
  /\ \E b \in 1..Len(method.blocks) : ~method.blocks[b].imported
  /\ Len(schema) = 7 /\ countOfCalls = 3 /\ countOfBlocks = 1

\* The second loop has run to its end (whatever the checks after it say).
WalkDone == allocCalls > 0 /\ (pc \in {"inserted", "done"} \/ (pc = "fatal" /\ instrument))

\* C11: when the second loop has run with instrument = true, whatever the
\* options, every block that got a counter had bbCodeOffs equal to the
\* ILOffset of the schema entry under the cursor, the cursor ends at the
\* length of the schema, and countOfBlocks and countOfCalls are both 0.
C11_CursorAndCounts ==
  (WalkDone /\ instrument) =>
     /\ "insert.ilOffset" \notin assertFailed
     /\ currentSchemaIndex = Len(schema)
     /\ countOfBlocks = 0
     /\ countOfCalls = 0

\* C12: when the second loop has run, every virtual, non-indirect call of an
\* imported block with class probes has had gtStubCallStubAddr set to the
\* stub address saved with its probe exactly once, whatever instrument and
\* the class-profiling option are.
C12_StubAddrRestoredOnce ==
  WalkDone =>
     \A site \in ProbeSites :
        /\ calls[site[1]][site[2]].stubAddr = CandidateStubAddr(site[1], site[2])
        /\ calls[site[1]][site[2]].restored = 1

\* The k-th call of the block b is as the importer left it, but for the stub
\* address.
CallUntouched(b, k) == calls[b][k].thisProbe = 0 /\ calls[b][k].tmp = 0
AllSites == UNION {{<<b, k>> : k \in 1..Len(method.blocks[b].calls)} :
                     b \in 1..Len(method.blocks)}
NothingInserted ==
  /\ \A b \in 1..Len(method.blocks) : counters[b] = <<>>
  /\ \A site \in AllSites : CallUntouched(site[1], site[2])
  /\ lvaCount = 0
  /\ entryHook.arg = "none"

\* C13: when the host answers E_NOTIMPL the instrumenter does not end in a
\* fatal error, walks all the blocks, and inserts nothing: no counter
\* statement, no rewritten this argument, no temp, no method-entry callback;
\* only the stub addresses of the probed calls change.
C13_NotImplementedInsertsNothing ==
  (allocCalls > 0 /\ method.allocResult = "E_NOTIMPL") =>
     /\ pc \in {"insert", "inserted", "done"}
     /\ ~instrument
     /\ NothingInserted
     /\ \A site \in AllSites \ ProbeSites :
          calls[site[1]][site[2]].stubAddr = 0 /\ calls[site[1]][site[2]].restored = 0
     /\ pc = "done" => countOfBlocks = 0

C13_Witness ==
  /\ pc = "done" /\ allocCalls = 1 /\ method.allocResult = "E_NOTIMPL"
  /\ method.classProfiling /\ method.prejit
  /\ Cardinality(CountedBlocks) >= 2
  /\ ProbeSites # {}
  /\ \A site \in ProbeSites : calls[site[1]][site[2]].restored = 1
  /\ NothingInserted

\* The method-entry callback statement is in the first block.
HookPresent == entryHook.arg # "none"

\* C14: when the instrumenter is done the method-entry callback is in the
\* first block iff instrument is true and the method is being prejitted; it
\* is not there after the minimal-profiling bail-out, after E_NOTIMPL, or
\* after a failed allocation.
C14_EntryHookIffPrejit ==
  /\ pc = "done" => (HookPresent <=> (instrument /\ method.prejit))
  /\ pc # "done" => ~HookPresent
  /\ (pc = "done" /\ allocCalls = 0) => ~HookPresent
  /\ (allocCalls > 0 /\ method.allocResult # "S_OK") => ~HookPresent
  /\ HookPresent => entryHook.addr = addrOfFirstExecutionCount

C14_Witness ==
  /\ pc = "done" /\ instrument /\ method.prejit /\ method.readyToRun
  /\ HookPresent /\ entryHook.arg = "resolvedToken"
  /\ Len(schema) >= 2 /\ schema[1].kind = "BasicBlockIntCount"
  /\ entryHook.addr = BufferBase + schema[1].offset

PlainBlocks ==
  /\ Len(method.blocks) >= 3
  /\ \A b \in 1..Len(method.blocks) :
       method.blocks[b].imported /\ ~method.blocks[b].internal
  /\ ProbeSites = {}

\* C16: for n >= 3 imported, non-internal blocks without class probes and a
\* successful allocation, the schema is n BasicBlockIntCount entries in the
\* order of the blocks, the i-th with the bbCodeOffs of the i-th block; every
\* block gets exactly one counter statement, on the address of its entry; and
\* the address of the first execution count is that of the first entry.
C16_PlainBlockCounters ==
  (PlainBlocks /\ method.allocResult = "S_OK" /\ pc \in {"inserted", "done"}) =>
     /\ Len(schema) = Len(method.blocks)
     /\ \A i \in 1..Len(schema) :
          /\ schema[i].kind = "BasicBlockIntCount"
          /\ schema[i].ilOffset = bbCodeOffs(i)
          /\ counters[i] = <<profileMemory + schema[i].offset>>
     /\ addrOfFirstExecutionCount = profileMemory + schema[1].offset
     /\ profileMemory = BufferBase /\ instrument

C16_Witness ==
  /\ PlainBlocks /\ method.allocResult = "S_OK" /\ pc = "done"
  /\ method.minimalProfiling
  /\ Len(schema) = 3 /\ schema[3].ilOffset = bbCodeOffs(3)
  /\ counters[3] = <<BufferBase + schema[3].offset>>
  /\ schema[3].offset > schema[2].offset /\ schema[2].offset > schema[1].offset
  /\ addrOfFirstExecutionCount = BufferBase + schema[1].offset

\* C17: when the host's allocation fails with a status other than E_NOTIMPL
\* the instrumenter ends in the fatal error and the second loop never runs:
\* no counter, no probe, no method-entry callback.
C17_AllocationFailureIsFatal ==
  (allocCalls > 0 /\ method.allocResult \notin {"S_OK", "E_NOTIMPL"}) =>
     /\ pc = "fatal"
     /\ "instrument.allocFailed" \in assertFailed
     /\ ~instrument
     /\ NothingInserted
     /\ \A site \in AllSites : calls[site[1]][site[2]].restored = 0
     /\ ~ENABLED InsertProbes /\ ~ENABLED FinishInstrument

C17_Witness ==
  /\ pc = "fatal" /\ allocCalls = 1 /\ method.allocResult = "E_FAIL"
  /\ method.prejit /\ ProbeSites # {} /\ Cardinality(CountedBlocks) >= 2
  /\ NothingInserted

(***************************************************************************)
(* Properties of the checked setters.                                      *)
(***************************************************************************)
ReturnedFrom(op) == pc = "returned" /\ setterCall.op = op
Range(lo, hi) == [min |-> lo, max |-> hi]

\* C18: on a range with min <= max, setEdgeWeightMinChecked(new, slop):
\* in range, sets min to new and returns true; above max, returns true iff
\* slop > 0 and new <= max + slop, and then, only when max # 0, sets min to
\* the old max and max to new; below min, returns true iff slop > 0 and
\* new + slop >= min, and then sets min to new and keeps max; on false the
\* range and the slop flag are as before; the slop flag is set exactly on a
\* success outside the range.
C18_SetMinReference ==
  ReturnedFrom("setMin") =>
    LET b == setterCall.before
        n == setterCall.newWeight
        sl == setterCall.slop
        r == setterCall.result
    IN /\ (b.min <= n /\ n <= b.max) =>
            (r /\ flEdge = Range(n, b.max) /\ wbUsedSlop = setterCall.usedBefore)
       /\ n > b.max =>
            /\ r <=> (sl > 0 /\ n <= b.max + sl)
            /\ r => flEdge = (IF b.max # 0 THEN Range(b.max, n) ELSE b)
            /\ r => wbUsedSlop
       /\ n < b.min =>
            /\ r <=> (sl > 0 /\ n + sl >= b.min)
            /\ r => flEdge = Range(n, b.max)
            /\ r => wbUsedSlop
       /\ ~r => (flEdge = b /\ wbUsedSlop = setterCall.usedBefore)

C18_Witness ==
  /\ ReturnedFrom("setMin")
  /\ setterCall.before.max # 0 /\ setterCall.newWeight = setterCall.before.max + 2
  /\ setterCall.before.min < setterCall.before.max
  /\ setterCall.result /\ ~setterCall.usedBefore /\ wbUsedSlop
  /\ flEdge = Range(setterCall.before.max, setterCall.newWeight)

\* C19: on a range with min <= max, setEdgeWeightMaxChecked(new, slop):
\* above max within slop, returns true with max = new and min as before;
\* below min within slop, returns true with max = the old min and min = new;
\* in range, sets max to new.
C19_SetMaxCases ==
  ReturnedFrom("setMax") =>
    LET b == setterCall.before
        n == setterCall.newWeight
        sl == setterCall.slop
        r == setterCall.result
    IN /\ (n > b.max /\ sl > 0 /\ n <= b.max + sl) => (r /\ flEdge = Range(b.min, n))
       /\ (n < b.min /\ sl > 0 /\ n + sl >= b.min) => (r /\ flEdge = Range(n, b.min))
       /\ (b.min <= n /\ n <= b.max) => (r /\ flEdge = Range(b.min, n))

\* C19 as amended: above max within slop the range is raised only when the
\* old max is not 0; a range whose max is 0 is left as it was.
C19_SetMaxCasesMaxNonZero ==
  ReturnedFrom("setMax") =>
    LET b == setterCall.before
        n == setterCall.newWeight
        sl == setterCall.slop
        r == setterCall.result
    IN /\ (n > b.max /\ sl > 0 /\ n <= b.max + sl) =>
            (r /\ flEdge = (IF b.max # 0 THEN Range(b.min, n) ELSE b))
       /\ (n < b.min /\ sl > 0 /\ n + sl >= b.min) => (r /\ flEdge = Range(n, b.min))
       /\ (b.min <= n /\ n <= b.max) => (r /\ flEdge = Range(b.min, n))

C19_Witness ==
  /\ ReturnedFrom("setMax")
  /\ setterCall.before = Range(0, 0) /\ setterCall.newWeight = 1 /\ setterCall.slop = 1
  /\ setterCall.result /\ flEdge = Range(0, 0) /\ wbUsedSlop

\* C20: whenever a checked setter returns true on a range with min <= max,
\* the range it leaves has max = 0 or min <= new <= max.
C20_SetterPostCondition ==
  (pc = "returned" /\ setterCall.result) =>
     \/ flEdge.max = 0
     \/ (flEdge.min <= setterCall.newWeight /\ setterCall.newWeight <= flEdge.max)

C20_Witness ==
  /\ ReturnedFrom("setMax") /\ setterCall.result
  /\ setterCall.newWeight < setterCall.before.min /\ setterCall.newWeight > 0
  /\ flEdge.max # 0
  /\ flEdge.min = setterCall.newWeight /\ flEdge.max = setterCall.before.min


(***************************************************************************)
(* Claims C21, C24, C25: the lookup of a block's weight in the profile     *)
(* data, and the stress mode that overrides it.                            *)
(***************************************************************************)
WeightAtDone == pc = "weightAtDone"

HasData == fgPgoSchema.present /\ ~compIsForImportOnly

BlockCountEntries ==
  {i \in 1..Len(fgPgoSchema.entries) :
     /\ fgPgoSchema.entries[i].InstrumentationKind = "BasicBlockIntCount"
     /\ fgPgoSchema.entries[i].ILOffset = ilOffs}

CounterOf(i) == fgPgoData[fgPgoSchema.entries[i].Offset]

\* C21: without a stress seed the lookup answers "not found" exactly when
\* there is no schema or the compilation is import-only; with data it
\* answers "found" with the counter, converted to a weight, of the first
\* BasicBlockIntCount entry at the offset (entries of other kinds at the
\* same offset are passed over), and "found" with weight 0 when there is no
\* such entry.
C21_WeightAt ==
  (WeightAtDone /\ hashSeed = Word(0)) =>
    /\ found <=> HasData
    /\ (HasData /\ BlockCountEntries # {}) =>
         \E i \in BlockCountEntries :
           /\ \A j \in BlockCountEntries : i <= j
           /\ weightWB = ToWeight(CounterOf(i))
    /\ (HasData /\ BlockCountEntries = {}) => weightWB = 0

\* A histogram entry at the offset stands before the block counter that is
\* returned, and their counters differ.
C21_Witness ==
  /\ WeightAtDone
  /\ hashSeed = Word(0)
  /\ HasData
  /\ Len(fgPgoSchema.entries) = 2
  /\ fgPgoSchema.entries[1].InstrumentationKind = "TypeHandleHistogramCount"
  /\ fgPgoSchema.entries[1].ILOffset = ilOffs
  /\ BlockCountEntries = {2}
  /\ CounterOf(1) = 1
  /\ CounterOf(2) = 2
  /\ found
  /\ weightWB = 2

\* The same call in a compilation that has no profile data at all.
WithoutProfileData ==
  fgGetProfileWeightForBasicBlock(compMethodHash, hashSeed, FALSE, NoSchema, <<>>, ilOffs,
                                  BB_UNITY_WEIGHT)

\* C24: with a stress seed the lookup always answers "found", and its
\* weight depends on the method hash, the seed and the offset only: whatever
\* the schema, the counter buffer and the import-only flag of the call are,
\* it returns what the call with the same three values returns in a
\* compilation without profile data (so any two calls that agree on the
\* three values return the same weight).
C24_StressIgnoresProfileData ==
  (WeightAtDone /\ hashSeed # Word(0)) =>
    /\ found
    /\ WithoutProfileData.found
    /\ WithoutProfileData.weight = weightWB

\* A stress weight returned where the profile data holds another count for
\* the block.
C24_Witness ==
  /\ WeightAtDone
  /\ hashSeed # Word(0)
  /\ HasData
  /\ BlockCountEntries # {}
  /\ \A i \in BlockCountEntries : ToWeight(CounterOf(i)) # weightWB
  /\ found
  /\ weightWB > 2

Hash == StressHash(compMethodHash, hashSeed, ilOffs)

\* hash % 3 == 0, or a factor of the product that is 0
BucketIsZero ==
  \/ ModWord(Hash, 3) = 0
  \/ /\ ModWord(Hash, 11) = 0
     /\ 0 \in {ModWord(Hash, 23), ModWord(Hash, 29), ModWord(Hash, 31)}
  \/ /\ ModWord(Hash, 11) # 0
     /\ 0 \in {ModWord(Hash, 17), ModWord(Hash, 19)}

\* C25: with a stress seed the weight of offset 0 is never 0: where the
\* bucket formula gives 0 the weight is 1 + hash % 5, between 1 and 5.
C25_EntryNeverZero ==
  (WeightAtDone /\ hashSeed # Word(0) /\ ilOffs = 0) =>
    /\ found
    /\ weightWB # 0
    /\ BucketIsZero => (weightWB = 1 + ModWord(Hash, 5) /\ weightWB \in 1..5)

\* hash = 253 = 11 * 23: the product bucket with a factor 0.
C25_Witness ==
  /\ WeightAtDone
  /\ hashSeed = Word(11)
  /\ compMethodHash = Word(23)
  /\ ilOffs = 0
  /\ ModWord(Hash, 3) # 0
  /\ ModWord(Hash, 11) = 0
  /\ ModWord(Hash, 23) = 0
  /\ weightWB = 4


(***************************************************************************)
(* Claim C23: the solver is skipped without profile weights.               *)
(***************************************************************************)
SolverSkipped == pc = "done" /\ (~isOptimizing \/ ~usingProfileWeights)

DefaultRange == [min |-> BB_ZERO_WEIGHT, max |-> BB_MAX_WEIGHT]

\* C23: when the compilation is not optimizing or does not use profile
\* weights, fgComputeEdgeWeights leaves every pred record at the range it
\* had, sets none of fgEdgeWeightsComputed, fgSlopUsedInEdgeWeights and
\* fgRangeUsedInEdgeWeights, and fgHaveValidEdgeWeights is still false, as
\* fgComputeBlockAndEdgeWeights reset it.
C23_SolverSkipped ==
  SolverSkipped =>
    /\ \A i \in 1..Len(edges) : edges[i] = DefaultRange
    /\ ~fgEdgeWeightsComputed
    /\ ~fgSlopUsedInEdgeWeights
    /\ ~fgRangeUsedInEdgeWeights
    /\ ~fgHaveValidEdgeWeights

\* An optimizing compilation without profile weights, on blocks whose
\* weights would have given exact edge weights.
C23_Witness ==
  /\ SolverSkipped
  /\ isOptimizing
  /\ ~usingProfileWeights
  /\ AllProfiled
  /\ IsShape(Chain3)
  /\ bbWeight = <<2, 2, 2>>
  /\ edges = <<DefaultRange, DefaultRange>>
  /\ ~fgEdgeWeightsComputed


(***************************************************************************)
(* Claims C26, C27: fgComputeMissingBlockWeights.                          *)
(***************************************************************************)
\* The weight the only predecessor of b hands to b (the first rule), if any.
PredCandidates(b) ==
  IF cfg.refs[b] = 1 /\ cfg.preds[b] # <<>>
  THEN LET p == cfg.preds[b][1]
       IN IF OnlyNext(cfg, p) = b /\ bbProf[p] THEN {bbWeight[p]} ELSE {}
  ELSE {}

\* C26: a scan gives a block without profile weight a weight that is not
\* the one of its predecessor only as the weight of its sole successor n,
\* where n has exactly one in-edge and has a profile weight.
C26_SuccessorRuleNeedsProfile ==
  [][\A b \in Blocks(cfg) :
       (pc = "propagate" /\ bbWeight'[b] # bbWeight[b] /\ bbWeight'[b] \notin PredCandidates(b))
         => LET n == OnlyNext(cfg, b)
            IN /\ n # 0
               /\ cfg.refs[n] = 1
               /\ bbProf[n]
               /\ bbWeight'[b] = bbWeight[n]]_vars


PropagationEnded == pc = "calledCount" \/ (pc = "edgeWeights" /\ ~usingProfileWeights)

OneMoreScan ==
  ScanBlocks(cfg, bbProf,
             [w |-> bbWeight, rare |-> bbRare, changed |-> FALSE, ret |-> 0, wr |-> {}], 1)

\* C27: the scans of fgComputeMissingBlockWeights stop after 10 scans at
\* most, also on a ring of blocks without profile weights whose weights go
\* round from scan to scan; and when they stop before the 10th scan one
\* more scan would change no weight and no BBF_RUN_RARELY flag.
C27_PropagationBounded ==
  /\ pc = "propagate" => iterations < 10
  /\ PropagationEnded =>
       /\ iterations <= 10
       /\ iterations < 10 =>
            /\ OneMoreScan.w = bbWeight
            /\ OneMoreScan.rare = bbRare
            /\ ~OneMoreScan.changed

\* The ring, stopped by the bound while its weights still go round.
C27_Witness ==
  /\ PropagationEnded
  /\ IsShape(Ring)
  /\ iterations = 10
  /\ changed
  /\ OneMoreScan.w # bbWeight


(***************************************************************************)
(* Claim C28: the reconciliation of the two pred records that leave a      *)
(* BBJ_COND block.                                                         *)
(***************************************************************************)
\* C28: when the reconciliation of a pred record e that leaves a BBJ_COND
\* block of weight W with the other pred record e' of that block ends with
\* every setter call successful, W - (e.min + e'.max) and
\* W - (e'.min + e.max) are both between -slop and +slop; also when slop
\* moved a range and when both successors are one block (e' is e).
C28_ReconciliationWithinSlop ==
  [][(pc = "reconcile" /\ cursor <= Len(cfg.edges) /\ pc' = "reconcile")
       => LET e == cursor
              o == OtherEdge(cfg, e)
              W == bbWeight[Src(cfg, e)]
              slop == GetSlopFraction(bbWeight[Src(cfg, e)], bbWeight[Dst(cfg, e)]) + 1
              d1 == W - (edges'[e].min + edges'[o].max)
              d2 == W - (edges'[o].min + edges'[e].max)
          IN  /\ (0 - slop) <= d1 /\ d1 <= slop
              /\ (0 - slop) <= d2 /\ d2 <= slop]_vars

\* Both successors of the BBJ_COND block B2 are B3, the one pred record is
\* [0, 0] and B2 has weight 1: setEdgeWeightMinChecked(1) went through on
\* slop and the reconciliation ended 1 off, within slop.
C28_Witness ==
  /\ IsShape(CondSame)
  /\ pc = "reconcile"
  /\ iterations = 1
  /\ cursor = 3
  /\ OtherEdge(cfg, 2) = 2
  /\ bbWeight = <<0, 1, 0>>
  /\ bbProf = <<TRUE, TRUE, FALSE>>
  /\ edges[2] = [min |-> 0, max |-> 0]
  /\ usedSlop


(***************************************************************************)
(* Claim C29: the passes of the do-while loop of fgComputeEdgeWeights.     *)
(***************************************************************************)
GoodEdges(es) == {i \in 1..Len(es) : es[i].min = es[i].max}

InPass == pc \in {"reconcile", "balance", "passEnd", "nextPass"}

\* A setter call of the loop body at the cursor returns false.
SetterFails ==
  \/ /\ pc = "reconcile" /\ cursor <= Len(cfg.edges)
     /\ ~Reconcile(cfg, bbWeight, edges, cursor).ok
  \/ /\ pc = "balance" /\ cursor <= NumBlocks(cfg)
     /\ bbWeight[cursor] # BB_MAX_WEIGHT
     /\ ~BalanceEdges(cfg, bbWeight,
                      [es |-> edges, ok |-> TRUE, used |-> FALSE, af |-> {},
                       good |-> 0, inc |-> FALSE],
                      InEdges(cfg, cursor), 1, DstWeight(bbWeight, fgCalledCount, cursor),
                      SumMin(edges, InEdges(cfg, cursor)),
                      SumMax(edges, InEdges(cfg, cursor))).ok

\* C29: the passes end.  At the foot of a pass in which every pred record
\* has min = max the loop stops; otherwise another pass begins only when
\* more pred records have min = max than at the foot of the pass before
\* (none before the first pass); no pass begins after the 8th; and a setter
\* call that fails ends the loop on the spot, and nothing changes a range
\* after that.
C29_PassesEnd ==
  [][/\ InPass' => iterations' <= 8
     /\ pc' = "nextPass" => iterations' < 8
     /\ pc = "passEnd" =>
          /\ GoodEdges(edges) = 1..Len(edges) => pc' = "exit"
          /\ pc' = "nextPass" => Cardinality(GoodEdges(edges)) > goodEdgeCountPrevious
          /\ pc' \in {"exit", "nextPass"}
     /\ SetterFails => (pc' = "exit" /\ inconsistentProfileData')
     /\ pc = "exit" => (pc' = "done" /\ edges' = edges)]_vars

\* The cascade: the 8th pass settled two pred records more and two are left
\* with a range, and the loop stops.
C29_Witness ==
  /\ IsShape(Cascade)
  /\ pc = "exit"
  /\ iterations = 8
  /\ ~inconsistentProfileData
  /\ Cardinality(GoodEdges(edges)) = goodEdgeCountCurrent
  /\ goodEdgeCountCurrent > goodEdgeCountPrevious
  /\ goodEdgeCountCurrent = Len(edges) - 2


(***************************************************************************)
(* Claim C30: a block of weight BB_MAX_WEIGHT in the second loop of a      *)
(* pass.                                                                   *)
(***************************************************************************)
\* The block the second loop of the pass is about to take up (0: none).
BalanceAt ==
  IF pc = "reconcile" /\ cursor > Len(cfg.edges) THEN 1
  ELSE IF pc = "balance" /\ cursor <= NumBlocks(cfg) THEN cursor
  ELSE 0

\* C30: when the second loop of a pass comes to a block whose weight is
\* BB_MAX_WEIGHT, the solver marks the profile inconsistent and leaves the
\* loop with every pred record as it was, those of that block and of the
\* blocks after it too; and it ends with fgHaveValidEdgeWeights false.
C30_MaxWeightIsInconsistent ==
  [][/\ (BalanceAt # 0 /\ bbWeight[BalanceAt] = BB_MAX_WEIGHT)
          => (inconsistentProfileData' /\ pc' = "exit" /\ edges' = edges)
     /\ (pc = "exit" /\ inconsistentProfileData)
          => (pc' = "done" /\ edges' = edges /\ ~fgHaveValidEdgeWeights')
     /\ (pc' = "done" /\ fgEdgeWeightsComputed' /\ \E b \in Blocks(cfg) : bbWeight[b] = BB_MAX_WEIGHT)
          => ~fgHaveValidEdgeWeights']_vars

\* The switch with BB_MAX_WEIGHT on B3: the pass settled the pred record of
\* B2, stopped at B3, and the pred record of B4 still has its range [0, 1].
C30_Witness ==
  /\ IsShape(Switch3)
  /\ AllProfiled
  /\ bbWeight = <<3, 1, BB_MAX_WEIGHT, 1>>
  /\ pc = "done"
  /\ iterations = 1
  /\ cursor = 3
  /\ inconsistentProfileData
  /\ ~fgHaveValidEdgeWeights
  /\ edges = <<[min |-> 1, max |-> 1], [min |-> 0, max |-> 3], [min |-> 0, max |-> 1]>>


(***************************************************************************)
(* Claim C22: the solver run a second time.                                *)
(***************************************************************************)
SecondRunDone == pc = "done" /\ firstRun.done

\* C22: a second run of fgComputeEdgeWeights, on the blocks and pred
\* records that a first run with valid edge weights left, ends with every
\* pred record at the min and max the first run left, whether the first run
\* left ranges or not.
C22_SecondRunChangesNothing ==
  SecondRunDone => edges = firstRun.edges


(***************************************************************************)
(* fgComputeProfileScale, for an inlinee: the call site block is iciBlock  *)
(* of the inline info, the profile data are those of the callee.  The      *)
(* factor is kept as the pair of the two weights it is the quotient of;    *)
(* the division is one of doubles and both weights are floats, so the      *)
(* quotient is 0, within (0, 1] or above 1 just as num / den is.           *)
(***************************************************************************)
MaxScaleCalls == 2

NeedsUpscale_Never(calleeWeight, callSiteWeight) == FALSE

\* if (calleeWeight < callSiteWeight)
NeedsUpscale(calleeWeight, callSiteWeight) == calleeWeight < callSiteWeight

\* The state and the factor of the inline info when the call returns.
ProfileScale(state, factor, ici, mh, seed, importOnly, sch, data) ==
  LET unavailable == [state |-> "UNAVAILABLE", factor |-> factor]
      callee == fgGetProfileWeightForBasicBlock(mh, seed, importOnly, sch, data, 0, 0)
  IN IF state # "UNDETERMINED" THEN [state |-> state, factor |-> factor]
     ELSE IF ~ici.prof THEN unavailable
     ELSE IF ici.weight = 0 THEN unavailable
     ELSE IF ~fgHaveProfileData(importOnly, sch) THEN unavailable
     ELSE IF ~callee.found THEN unavailable
     ELSE IF NeedsUpscale(callee.weight, ici.weight) THEN unavailable
     ELSE [state |-> "KNOWN", factor |-> [num |-> ici.weight, den |-> callee.weight]]

fgComputeProfileScale ==
  /\ pc = "scale"
  /\ scaleCalls < MaxScaleCalls
  /\ LET r == ProfileScale(profileScaleState, profileScaleFactor, iciBlock, compMethodHash,
                           hashSeed, compIsForImportOnly, fgPgoSchema, fgPgoData)
     IN /\ profileScaleState' = r.state
        /\ profileScaleFactor' = r.factor
  /\ scaleCalls' = scaleCalls + 1
  /\ UNCHANGED <<optVars, pc, cursor, assertFailed, insVars, setterVars, pgoVars, chkVars,
                 iciBlock>>

\* The weights of a call site block: small ones and one as large as the
\* largest counter is as a weight.
CallSiteWeights == {0, 1, 2, 3, LargeCount - 1}

ScaleHashes == {Word(0), Word(3), AllOnes}
ScaleSeeds == {Word(0), Word(1)}

InitScale ==
  /\ OptIdle
  /\ InsIdle
  /\ SetterIdle
  /\ ChkIdle
  /\ fgPgoSchema \in PgoSchemas
  /\ fgPgoData \in PgoDatas(fgPgoSchema)
  /\ compIsForImportOnly \in BOOLEAN
  /\ hashSeed \in ScaleSeeds
  /\ compMethodHash \in ScaleHashes
  /\ ilOffs = 0
  /\ weightWB = BB_ZERO_WEIGHT
  /\ found = FALSE
  /\ iciBlock \in [prof : BOOLEAN, weight : CallSiteWeights]
  /\ profileScaleState = "UNDETERMINED"
  /\ profileScaleFactor = [num |-> 0, den |-> 1]
  /\ scaleCalls = 0
  /\ pc = "scale"
  /\ cursor = 0
  /\ assertFailed = {}

NextScale == fgComputeProfileScale

SpecScale == InitScale /\ [][NextScale]_vars

(***************************************************************************)
(* Claim C31: the switch on bbJumpKind in the first loop.                  *)
(***************************************************************************)
\* The first loop is about to handle the pred record under the cursor.
InitStep == pc = "init" /\ cursor <= Len(cfg.edges)
InitSrc == Src(cfg, cursor)
InitDst == Dst(cfg, cursor)
ExactRange(w) == [min |-> w, max |-> w]

\* The range of the pred record under the cursor once the reset for a block
\* without profile weight is over.
AfterReset ==
  IF ~bbProf[InitSrc] \/ ~bbProf[InitDst]
  THEN setEdgeWeights(BB_ZERO_WEIGHT, BB_MAX_WEIGHT) ELSE edges[cursor]

\* An unconditional source that weighs no more than what flows into the
\* destination from inside the method.
CarriesAll ==
  /\ cfg.kind[InitSrc] \in Unconditional
  /\ bbWeight[InitSrc] <= DstWeight(bbWeight, fgCalledCount, InitDst)

\* The weight of the source is in the range, or below it by the slop at most.
SrcWeightFits ==
  /\ bbWeight[InitSrc] <= AfterReset.max
  /\ bbWeight[InitSrc] + Slop(bbWeight, InitSrc, InitDst) >= AfterReset.min

\* The first two parts of C31: only pred records whose source has one of the
\* eight jump kinds get past the switch, and a BBJ_RETURN or BBJ_THROW source
\* ends the compilation with the range as the reset left it.
KindsHandled ==
  InitStep =>
    /\ pc' # "fatal" => cfg.kind[InitSrc] \in Unconditional \cup MultiWay
    /\ cfg.kind[InitSrc] \in NoSuccessor
         => (pc' = "fatal" /\ edges' = [edges EXCEPT ![cursor] = AfterReset])

\* C31 as the specification states it: in the first loop every pred record
\* that is given a range has a source of one of the eight jump kinds, a
\* source that is a BBJ_RETURN or BBJ_THROW block ends the compilation, and
\* an unconditional source that weighs no more than the destination leaves
\* the pred record at exactly [weight, weight].
C31_Original ==
  [][/\ KindsHandled
     /\ (InitStep /\ CarriesAll) => edges'[cursor] = ExactRange(bbWeight[InitSrc])]_vars

\* C31: in the first loop every pred record that is given a range has a
\* source of one of the eight jump kinds, a BBJ_RETURN or BBJ_THROW source
\* ends the compilation, and an unconditional source that weighs no more
\* than the destination (less fgCalledCount for the first block) leaves the
\* pred record at exactly [weight, weight] when, and only when, that weight
\* is not above the max the pred record has after the reset and not below
\* its min by more than the slop: a range [0, 0] kept from an earlier run
\* stays [0, 0] under a source of weight 1.
C31_JumpKinds ==
  [][/\ KindsHandled
     /\ (InitStep /\ CarriesAll)
          => (edges'[cursor] = ExactRange(bbWeight[InitSrc]) <=> SrcWeightFits)]_vars

\* B2 is a BBJ_THROW block with a pred record to B3: the first loop gave the
\* pred record of B2 the weight of B1 and stopped at the one B2 is the
\* source of.
C31_Witness ==
  /\ pc = "fatal"
  /\ cursor = 2
  /\ cfg.kind[InitSrc] = "THROW"
  /\ cfg.kind[Src(cfg, 1)] \in Unconditional
  /\ bbWeight[Src(cfg, 1)] = 2
  /\ edges[1] = ExactRange(2)
  /\ edges[2] = setEdgeWeights(BB_ZERO_WEIGHT, BB_MAX_WEIGHT)


(***************************************************************************)
(* Claim C32: what fgDebugCheckProfileData reports.                        *)
(***************************************************************************)
Within(w, es, idx) == SumMin(es, idx) <= w /\ w <= SumMax(es, idx)

\* (a) and (b): the weight of the block is within the sums of the pred
\* records that enter it, and of those that leave it.
InFlowOK(b) == Within(bbWeight[b], edges, InEdges(cfg, b))
OutFlowOK(b) == Within(bbWeight[b], edges, OutEdges(cfg, b))

\* (c): every successor of the block has a pred record that names it.
SuccEdgesOK(b) == \A s \in SuccSet(cfg, b) : fgGetPredForBlock(cfg.edges, s, b) # 0

IncomingExempt(b) == b = 1 \/ b \in ehBoundaryIn
OutgoingExempt(b) == IsExit(cfg, b) \/ b \in ehBoundaryOut

ProfiledEntryWeight == IF bbProf[1] THEN bbWeight[1] ELSE 0
ProfiledExit == \E b \in Blocks(cfg) : bbProf[b] /\ IsExit(cfg, b)

\* The four conditions as the specification lists them.
ListedViolation ==
  \E b \in Blocks(cfg) :
    /\ bbProf[b]
    /\ \/ ~(IncomingExempt(b) \/ InFlowOK(b))
       \/ ~(OutgoingExempt(b) \/ OutFlowOK(b))
       \/ ~SuccEdgesOK(b)
       \/ ProfiledEntryWeight # ExitWeight(cfg, bbWeight, bbProf)

\* The conditions with what the code adds to them: a block that is not
\* exempt needs a pred record, and a successor, at all; the pred records of
\* the successors are only looked for when the outgoing flow is verified;
\* entry and exit weights are only compared when the first block and some
\* exit block are profiled.
CheckedViolation ==
  \/ \E b \in Blocks(cfg) :
       /\ bbProf[b]
       /\ \/ ~IncomingExempt(b) /\ (InEdges(cfg, b) = <<>> \/ ~InFlowOK(b))
          \/ ~OutgoingExempt(b)
               /\ (SuccSet(cfg, b) = {} \/ ~SuccEdgesOK(b) \/ ~OutFlowOK(b))
  \/ /\ bbProf[1]
     /\ ProfiledExit
     /\ bbWeight[1] # ExitWeight(cfg, bbWeight, bbProf)

\* C32 as the specification states it: the checker reports a problem exactly
\* when, for some profiled block, the weight is outside the sums of its
\* in-edges (entry and EH-entered blocks aside) or of its out-edges (exit
\* and EH-left blocks aside), a successor has no pred record back, or the
\* entry weight differs from the exit weight; and it changes nothing.
C32_Original ==
  [][pc = "check" =>
       /\ problemBlocks' > 0 <=> ListedViolation
       /\ UNCHANGED <<cfgVars, blockVars, edges>>]_vars

\* C32: the checker reports a problem exactly when some profiled block that
\* is not the first block and not EH-entered has no pred record or a weight
\* outside the sums of its in-edges, or some profiled block that is not an
\* exit and not EH-left has no successor, a successor without a pred record
\* back, or a weight outside the sums of its out-edges, or the first block
\* and an exit block are profiled and the weight of the first block differs
\* from the sum of the profiled exit weights; it changes no weight, flag or
\* range.
C32_CheckerReports ==
  [][pc = "check" =>
       /\ problemBlocks' > 0 <=> CheckedViolation
       /\ UNCHANGED <<cfgVars, blockVars, edges>>]_vars

\* B3 is profiled with weight 0 and nothing jumps to it: one problem, with
\* every weight within its sums and entry and exit weights equal.
C32_Witness ==
  /\ pc = "checked"
  /\ cfg = KindGraph("ALWAYS", 1)
  /\ \A b \in Blocks(cfg) : bbProf[b] /\ bbWeight[b] = 0
  /\ \A i \in 1..Len(edges) : edges[i] = ExactRange(0)
  /\ ehBoundaryIn = {}
  /\ ehBoundaryOut = {}
  /\ problemBlocks = 1


(***************************************************************************)
(* Claim C33: without slop the ranges only narrow.                         *)
(***************************************************************************)
Narrowed(old, new) == new.min >= old.min /\ new.max <= old.max

\* A step of a run of fgComputeEdgeWeights, its first loop or a pass.
InSolverRun == pc \in {"init", "reconcile", "balance", "passEnd", "nextPass"}

\* The range a step starts from: for the pred record the first loop is at,
\* the range after the reset.
RangeBefore(i) == IF InitStep /\ i = cursor THEN AfterReset ELSE edges[i]

\* C33: in a run of the solver that ends with fgSlopUsedInEdgeWeights false,
\* every step of the first loop after the reset of a pred record and every
\* step of a pass leaves each min at or above, and each max at or below,
\* what it was.  usedSlop is never cleared during a run and is what the run
\* stores in fgSlopUsedInEdgeWeights, so a step that does otherwise has to,
\* and does, set usedSlop.
C33_RangesNarrow ==
  [][/\ (InSolverRun /\ ~usedSlop')
          => \A i \in 1..Len(edges) : Narrowed(RangeBefore(i), edges'[i])
     /\ (InSolverRun /\ usedSlop) => usedSlop'
     /\ pc = "exit" => (fgSlopUsedInEdgeWeights' = usedSlop /\ edges' = edges)]_vars

\* The cascade after its eight passes without slop: every range is inside
\* the range [0, BB_MAX_WEIGHT] of a new pred record, some are down to one
\* weight and one is not.
C33_Witness ==
  /\ SolverDone
  /\ IsShape(Cascade)
  /\ ~fgSlopUsedInEdgeWeights
  /\ fgHaveValidEdgeWeights
  /\ iterations = MaxSolverIterations
  /\ \A i \in 1..Len(edges) : edges[i].max <= 2
  /\ \E i \in 1..Len(edges) : edges[i].min = 2 /\ edges[i].max = 2
  /\ \E i \in 1..Len(edges) : edges[i].min < edges[i].max


(***************************************************************************)
(* Claim C34: the assertions on the path of the solver.                    *)
(***************************************************************************)
\* The asserts of the two checked setters in the branch for a weight below
\* the min, and the checks of the passes on the ranges and on the max sum.
SolverAsserts ==
  {"setMin.minAboveNew", "setMin.maxNonZero", "setMax.minAboveNew", "setMax.maxNonZero",
   "reconcile.edgeMinMax", "reconcile.otherMinMax", "balance.maxSum"}

\* C34: on no call the solver makes does an assertion of a checked setter
\* fail (in the branch for a weight below the min: min > weight and
\* max != 0), whatever the block weights and fgCalledCount, in-edges of the
\* first block included; nor do the checks min <= max on the two pred
\* records of a BBJ_COND block or max sum >= max of each in-edge.
C34_NoAssertFails ==
  assertFailed \cap SolverAsserts = {}


(***************************************************************************)
(* Claim C35: the scale of an inlinee.                                     *)
(***************************************************************************)
\* What fgGetProfileWeightForBasicBlock(0, &calleeWeight) stores.
CalleeWeight ==
  fgGetProfileWeightForBasicBlock(compMethodHash, hashSeed, compIsForImportOnly,
                                  fgPgoSchema, fgPgoData, 0, 0).weight

\* C35: a call of fgComputeProfileScale takes the state UNDETERMINED to
\* UNAVAILABLE or to KNOWN and leaves a state UNAVAILABLE or KNOWN, and the
\* factor with it, as they are; the state becomes KNOWN only if the call
\* site block has a profile weight above 0, the callee has profile data and
\* the weight of its entry is at least that of the call site; the divisor
\* is then not 0 and the factor, call site weight over callee weight, is
\* above 0 and at most 1.
C35_ProfileScale ==
  [][pc = "scale" =>
       /\ profileScaleState = "UNDETERMINED"
            => profileScaleState' \in {"UNAVAILABLE", "KNOWN"}
       /\ profileScaleState # "UNDETERMINED"
            => UNCHANGED <<profileScaleState, profileScaleFactor>>
       /\ (profileScaleState = "UNDETERMINED" /\ profileScaleState' = "KNOWN")
            => /\ iciBlock.prof
               /\ iciBlock.weight > 0
               /\ fgHaveProfileData(compIsForImportOnly, fgPgoSchema)
               /\ CalleeWeight >= iciBlock.weight
               /\ profileScaleFactor' = [num |-> iciBlock.weight, den |-> CalleeWeight]
       /\ profileScaleState' = "KNOWN"
            => /\ profileScaleFactor'.den # 0
               /\ 0 < profileScaleFactor'.num
               /\ profileScaleFactor'.num <= profileScaleFactor'.den]_vars

\* A call site of weight 1 in a callee whose entry counter is 2: the factor
\* is 1/2 after the first call and after the second.
C35_Witness ==
  /\ pc = "scale"
  /\ scaleCalls = 2
  /\ hashSeed = Word(0)
  /\ profileScaleState = "KNOWN"
  /\ profileScaleFactor = [num |-> 1, den |-> 2]


(***************************************************************************)
(* Claim C36: the successor rule wins over the predecessor rule.           *)
(***************************************************************************)
\* The weight the only successor n of b hands to b by the second rule as the
\* specification has it: n has one in-edge and a profile weight.
SuccCandidates(b) ==
  LET n == OnlyNext(cfg, b)
  IN IF n # 0 /\ cfg.preds[n] # <<>> /\ cfg.refs[n] = 1 /\ bbProf[n]
     THEN {bbWeight[n]} ELSE {}

\* Both rules have a weight for the block b, which has no profile weight,
\* and the two differ.
RulesDisagree(b) ==
  /\ ~bbProf[b]
  /\ PredCandidates(b) # {}
  /\ SuccCandidates(b) # {}
  /\ PredCandidates(b) # SuccCandidates(b)

\* C36 as the specification states it: when the predecessor rule and the
\* successor rule both have a weight for a block without profile weight and
\* the weights differ, a scan leaves the block with the weight of its sole
\* successor.
C36_Original ==
  [][\A b \in Blocks(cfg) :
       (pc = "propagate" /\ RulesDisagree(b)) => bbWeight'[b] \in SuccCandidates(b)]_vars

\* C36: when the predecessor rule and the successor rule both have a weight
\* for a block without profile weight and the weights differ, a scan leaves
\* the block with the weight of its sole successor, not with that of its
\* sole predecessor, unless the weight of the successor is BB_MAX_WEIGHT,
\* the value newWeight holds when no rule has a weight: the scan then
\* leaves the block with the weight it had.
C36_SuccessorRuleWins ==
  [][\A b \in Blocks(cfg) :
       (pc = "propagate" /\ RulesDisagree(b))
         => IF BB_MAX_WEIGHT \in SuccCandidates(b)
            THEN bbWeight'[b] = bbWeight[b]
            ELSE bbWeight'[b] \in SuccCandidates(b)]_vars

\* The chain B1 -> B2 -> B3 with B1 at 1 and B3 at 2: B2, without profile
\* weight and at 0 before, is at 2 after the scans.
C36_Witness ==
  /\ PropagationEnded
  /\ IsShape(Chain3)
  /\ bbProf = <<TRUE, FALSE, TRUE>>
  /\ RulesDisagree(2)
  /\ bbWeight = <<1, 2, 2>>
  /\ written.propagated = {2}

====
